---------------------------- MODULE Spec2Model ----------------------------
(***************************************************************************)
(* english-validator: the language-classification pipeline of              *)
(* src/src/index.ts (preprocessor, word classifier, trigram fallback,      *)
(* decision engine) and its two insertion-ordered bounded caches.          *)
(*                                                                         *)
(* Conventions.  A JavaScript string is a TLA+ string; the character at    *)
(* 1-based index i of s is SubSeq(s, i, i).  An offset is a number of      *)
(* characters already consumed (0 .. Len(s)), as a RegExp's lastIndex.     *)
(* Ratios and thresholds are kept in hundredths (0.8 is 80) and compared   *)
(* by cross-multiplication, so no rounding enters.                         *)
(***************************************************************************)
EXTENDS Integers, Sequences, FiniteSets, TLC

VARIABLES
    francCache,   \* Map<string, [string, number]>, in insertion order
    wordCache,    \* Map<string, boolean>, in insertion order
    francSeed,    \* which n-gram identifier the process is linked with
    call,         \* the last public call: [op, inputText, options]
    ret,          \* what that call returned: [status, value]
    observed,     \* what that call computed on its way (see NoObservation)
    calls,        \* number of public calls made so far
    callers       \* callers inside isEnglishWordCached at the same time, each
                  \* with its position (none in a JavaScript process, where a
                  \* call runs to completion before the next one starts)

vars == <<francCache, wordCache, francSeed, call, ret, observed, calls, callers>>

\* F applied to the value of v: v is evaluated once, before F is applied
\* (a definition's argument is otherwise evaluated again at each use)
Bind(v, F(_)) == CHOOSE r \in {F(x) : x \in {v}} : TRUE

\* the function f as an explicit table: each of its values is computed once
Table(f) == f @@ <<>>

---------------------------------------------------------------------------
(* Characters *)

CharsOf(str) == {SubSeq(str, i, i) : i \in 1..Len(str)}

ASCII_UPPER == "ABCDEFGHIJKLMNOPQRSTUVWXYZ"
ASCII_LOWER == "abcdefghijklmnopqrstuvwxyz"
ASCII_DIGIT == "0123456789"

UpperSet == CharsOf(ASCII_UPPER)
LowerSet == CharsOf(ASCII_LOWER)
DigitSet == CharsOf(ASCII_DIGIT)

\* The letters outside ASCII that the model's texts use.
NON_ASCII_LOWER == "äöüßéèñç"
NON_ASCII_UPPER == "ÄÖÜ"

\* \p{L}
LetterSet == UpperSet \cup LowerSet \cup CharsOf(NON_ASCII_LOWER)
                 \cup CharsOf(NON_ASCII_UPPER)

\* \s
WhitespaceSet == {" ", "\t", "\n"}

\* \w, which decides \b: ASCII letters, digits and underscore only
WordCharSet == UpperSet \cup LowerSet \cup DigitSet \cup {"_"}

\* every character a text of the model can hold
Alphabet == LetterSet \cup DigitSet \cup WhitespaceSet
                \cup CharsOf("_-'.,!?:;\"()[]#@$*+=/")

\* String.prototype.toLowerCase, character by character
LowerOfChar(c) ==
    IF \E i \in 1..Len(ASCII_UPPER) : SubSeq(ASCII_UPPER, i, i) = c
    THEN LET i == CHOOSE j \in 1..Len(ASCII_UPPER) : SubSeq(ASCII_UPPER, j, j) = c
         IN  SubSeq(ASCII_LOWER, i, i)
    ELSE IF c = "Ä" THEN "ä"
    ELSE IF c = "Ö" THEN "ö"
    ELSE IF c = "Ü" THEN "ü"
    ELSE c

UpperOfChar(c) ==
    IF \E i \in 1..Len(ASCII_LOWER) : SubSeq(ASCII_LOWER, i, i) = c
    THEN LET i == CHOOSE j \in 1..Len(ASCII_LOWER) : SubSeq(ASCII_LOWER, j, j) = c
         IN  SubSeq(ASCII_UPPER, i, i)
    ELSE IF c = "ä" THEN "Ä"
    ELSE IF c = "ö" THEN "Ö"
    ELSE IF c = "ü" THEN "Ü"
    ELSE c

RECURSIVE lowerFrom(_, _, _)
\* the lower-case form of the characters lo..hi of s
lowerFrom(s, lo, hi) ==
    IF lo > hi THEN ""
    ELSE IF lo = hi THEN LowerOfChar(SubSeq(s, lo, lo))
    ELSE lowerFrom(s, lo, (lo + hi) \div 2) \o lowerFrom(s, (lo + hi) \div 2 + 1, hi)

toLowerCase(s) == Bind(s, LAMBDA x : lowerFrom(x, 1, Len(x)))

\* the characters a case-insensitive (/i) class matches
CaseFold(S) == S \cup {LowerOfChar(c) : c \in S} \cup {UpperOfChar(c) : c \in S}

---------------------------------------------------------------------------
(* Regular expressions: the backtracking matcher of a JavaScript RegExp.   *)
(* A pattern is a tree; Ends(p, s, i) is the sequence of offsets at which  *)
(* a match of p starting at offset i of s can end, in the order the        *)
(* backtracking engine tries them (greedy quantifiers longest first,       *)
(* alternatives left to right), so its first element is the match.         *)

Class(S)        == [t |-> "class", s |-> S]
Cat(ps)         == [t |-> "cat", ps |-> ps]
Alt(ps)         == [t |-> "alt", ps |-> ps]
Rep(p, lo, hi)  == [t |-> "rep", p |-> p, lo |-> lo, hi |-> hi]  \* p{lo,hi}
Plus(p)         == [t |-> "rep", p |-> p, lo |-> 1, hi |-> -1]   \* p+
Star(p)         == [t |-> "rep", p |-> p, lo |-> 0, hi |-> -1]   \* p*
WordBoundary    == [t |-> "wb"]                                  \* \b
StartAnchor     == [t |-> "bos"]                                 \* ^
EndAnchor       == [t |-> "eos"]                                 \* $

\* a literal string, case-sensitive or under the /i flag
Lit(str)  == Cat([i \in 1..Len(str) |-> Class({SubSeq(str, i, i)})])
LitI(str) == Cat([i \in 1..Len(str) |-> Class(CaseFold({SubSeq(str, i, i)}))])

IsWordCharAt(s, i) == i >= 1 /\ i <= Len(s) /\ SubSeq(s, i, i) \in WordCharSet

RECURSIVE Ends(_, _, _), EndsCat(_, _, _, _), EndsCatEach(_, _, _, _, _),
          EndsAlt(_, _, _, _), EndsRep(_, _, _, _, _), EndsRepEach(_, _, _, _, _, _)

Ends(p, s, i) ==
    CASE p.t = "class" ->
            IF i < Len(s) /\ SubSeq(s, i + 1, i + 1) \in p.s THEN <<i + 1>> ELSE <<>>
      [] p.t = "wb"  ->
            IF IsWordCharAt(s, i) # IsWordCharAt(s, i + 1) THEN <<i>> ELSE <<>>
      [] p.t = "bos" -> IF i = 0 THEN <<i>> ELSE <<>>
      [] p.t = "eos" -> IF i = Len(s) THEN <<i>> ELSE <<>>
      [] p.t = "cat" -> EndsCat(p.ps, 1, s, i)
      [] p.t = "alt" -> EndsAlt(p.ps, 1, s, i)
      [] p.t = "rep" -> EndsRep(p.p, p.lo, p.hi, s, i)

EndsCat(ps, k, s, i) ==
    IF k > Len(ps) THEN <<i>>
    ELSE Bind(Ends(ps[k], s, i), LAMBDA es : EndsCatEach(es, 1, ps, k, s))

EndsCatEach(es, j, ps, k, s) ==
    IF j > Len(es) THEN <<>>
    ELSE EndsCat(ps, k + 1, s, es[j]) \o EndsCatEach(es, j + 1, ps, k, s)

EndsAlt(ps, k, s, i) ==
    IF k > Len(ps) THEN <<>>
    ELSE Ends(ps[k], s, i) \o EndsAlt(ps, k + 1, s, i)

\* greedy: one more iteration is tried before stopping; an iteration that
\* consumes nothing ends the loop
EndsRep(p, lo, hi, s, i) ==
    LET more == IF hi = 0 THEN <<>>
                ELSE Bind(Ends(p, s, i),
                          LAMBDA es : EndsRepEach(es, 1, p, lo, hi, s))
        stop == IF lo <= 0 THEN <<i>> ELSE <<>>
    IN  more \o stop

EndsRepEach(es, j, p, lo, hi, s) ==
    IF j > Len(es) THEN <<>>
    ELSE LET e    == es[j]
             rest == EndsRepEach(es, j + 1, p, lo, hi, s)
             nhi  == IF hi < 0 THEN hi ELSE hi - 1
         IN  (EndsRep(p, lo - 1, nhi, s, e)) \o rest

\* the end of the match at offset i exactly, or -1
MatchAt(p, s, i) ==
    Bind(Ends(p, s, i), LAMBDA es : IF Len(es) = 0 THEN -1 ELSE es[1])

\* RegExp.prototype.test of a pattern without the g flag
Test(p, s) ==
    \E pattern \in {p}, str \in {s} :
        \E i \in 0..Len(str) : MatchAt(pattern, str, i) >= 0

\* the leftmost match of p in s at or after offset i, as <<start, end>>, or
\* <<>> when there is none
FirstMatch(p, s, i) ==
    Bind({j \in i..Len(s) : MatchAt(p, s, j) >= 0},
         LAMBDA starts :
             IF starts = {} THEN <<>>
             ELSE Bind(CHOOSE x \in starts : \A y \in starts : x <= y,
                       LAMBDA j : <<j, MatchAt(p, s, j)>>))

Rest(s, i) == IF i >= Len(s) THEN "" ELSE SubSeq(s, i + 1, Len(s))

\* String.prototype.replace(pattern, by): every match when the pattern has
\* the g flag, the first match only when it has not.  The search resumes at
\* the end of a match, one character further after an empty match.
RECURSIVE ReplaceFrom(_, _, _, _, _)
ReplaceFrom(p, s, i, by, global) ==
    Bind(FirstMatch(p, s, i),
         LAMBDA m :
             IF m = <<>> THEN Rest(s, i)
             ELSE LET j    == m[1]
                      e    == m[2]
                      kept == IF j > i THEN SubSeq(s, i + 1, j) ELSE ""
                  IN  IF ~global THEN kept \o by \o Rest(s, e)
                      ELSE IF e > j
                      THEN kept \o by \o ReplaceFrom(p, s, e, by, global)
                      ELSE IF j >= Len(s) THEN kept \o by
                      ELSE kept \o by \o SubSeq(s, j + 1, j + 1)
                                \o ReplaceFrom(p, s, j + 1, by, global))

Replace(s, p, by, global) ==
    Bind(<<s, p>>, LAMBDA a : ReplaceFrom(a[2], a[1], 0, by, global))

---------------------------------------------------------------------------
(* Module-level constants and precompiled patterns *)

FRANC_CACHE_LIMIT == 1000
WORD_CACHE_LIMIT == 5000

Upper(lo, hi) == Rep(Class(UpperSet), lo, hi)    \* [A-Z]{lo,hi}
Digit(lo, hi) == Rep(Class(DigitSet), lo, hi)    \* \d{lo,hi}
Hyphen == Class({"-"})

\* none of the three has the g flag: test() keeps no lastIndex
DOCUMENT_PATTERNS_MATCH == <<
    Cat(<<WordBoundary, Upper(2, 6), Digit(1, 4),
          Rep(Cat(<<Hyphen, Upper(1, 3), Digit(1, 4)>>), 1, 3), WordBoundary>>),
    Cat(<<WordBoundary, Upper(2, 6), Digit(2, 4), Hyphen, Upper(1, 3), Digit(1, 3),
          WordBoundary>>),
    Cat(<<WordBoundary, Upper(2, 6), Digit(1, 4), WordBoundary>>) >>

\* all four have the g flag
DOCUMENT_PATTERNS_REMOVE == <<
    Cat(<<WordBoundary, Upper(2, 6), Digit(0, 4),
          Rep(Cat(<<Hyphen, Upper(2, 6), Digit(0, 4)>>), 1, 4), WordBoundary>>),
    Cat(<<WordBoundary, Upper(2, 6), Digit(2, 4), Hyphen, Upper(1, 3), Digit(1, 3),
          WordBoundary>>),
    Cat(<<WordBoundary, Upper(2, 6), Digit(1, 4), WordBoundary>>),
    Cat(<<WordBoundary, Upper(2, 4), Hyphen, Upper(2, 4), Digit(2, 4), WordBoundary>>) >>

\* /[...]/i; of the source's class, the characters the model's alphabet has
NON_ENGLISH_CHARS_REGEX == Class(CaseFold(CharsOf("äöüßéèñç")))

\* /(?:keit|schaft|...)$/i
NON_ENGLISH_ENDINGS_REGEX ==
    Cat(<<Alt(<<LitI("keit"), LitI("schaft"), LitI("ción"), LitI("zione"),
                LitI("mente"), LitI("baar"), LitI("lijk"), LitI("eur"),
                LitI("agem"), LitI("ção")>>), EndAnchor>>)

\* /^(w1|...|wn)$/i matches exactly the strings whose lower-case form is one
\* of the wi: each list is kept as the set of its (lower-cased) words
NON_ENGLISH_FUNCTION_WORDS_REGEX ==
    {"le", "la", "les", "du", "des", "dans", "avec", "sans", "sur", "sous",
     "entre", "el", "los", "las", "del", "al", "con", "sin", "por", "der",
     "die", "das", "den", "dem", "ein", "eine", "einen", "einem", "einer",
     "eines", "mit", "il", "lo", "gli", "het", "een", "op", "aan", "voor",
     "met", "door", "os", "dos", "nos", "nas", "um", "uma"}

\* (the Turkish list's last word has a letter outside Latin-1 and is left out)
NON_ENGLISH_WORD_PATTERNS == <<
    {"und", "oder", "wann", "aber", "kann", "wenn", "weil", "dass", "ob", "für",
     "nicht", "kein", "keine", "nur", "sehr", "schon", "noch", "jetzt", "immer",
     "wieder", "möchte", "würde", "hätte", "könnte", "sollte", "müsste", "dürfte"},
    {"que", "como", "porque", "pero", "cuando", "donde", "quien", "cual", "este",
     "esta", "estos", "estas", "ese", "esa", "esos", "esas", "aquel", "aquella",
     "aquellos", "aquellas"},
    {"est", "sont", "était", "être", "avoir", "faire", "dire", "voir", "pouvoir",
     "vouloir", "devoir", "falloir", "savoir", "quand", "où", "pourquoi", "qui",
     "quel", "quelle", "quels", "quelles", "ce", "cette", "ces", "cet"},
    {"sono", "sei", "è", "siamo", "siete", "essere", "avere", "fare", "dire",
     "andare", "vedere", "dare", "sapere", "potere", "volere", "come", "quando",
     "dove", "perché", "chi", "quale", "quali"},
    {"en", "hoe", "es", "er", "wanneer", "je", "stel", "kritiek", "et", "kritisk",
     "maar", "want", "omdat", "hoewel", "terwijl", "tenzij", "indien", "toen",
     "totdat", "voordat", "nadat", "zodat", "mits", "toch", "dus", "immers",
     "namelijk"},
    {"eu", "tu", "ele", "ela", "nós", "vós", "eles", "elas", "isto", "isso",
     "aquilo", "mesmo", "mesma", "mesmos", "mesmas", "próprio", "própria",
     "próprios", "próprias"},
    {"ben", "sen", "biz", "siz", "onlar", "bana", "sana", "ona", "bize", "size",
     "onlara", "benim", "senin", "onun", "bizim", "sizin"},
    {"jeg", "mig", "min", "mit", "mine", "dig", "din", "dit", "dine", "han", "ham",
     "hans", "hun", "hende", "hendes", "den", "det", "de", "dem", "deres",
     "denne", "dette", "disse"} >>

\* The Dictionary and the geo-term list live in src/dictionary.ts, which is
\* generated data: a small Dictionary of lower-case words and a short
\* geo-term list stand for them.
englishDictionary ==
    {"a", "i", "is", "it", "the", "cat", "fox", "hello", "world", "friend",
     "ready", "theater", "great", "don", "can", "do", "not", "die", "come",
     "us", "paris", "big", "fix", "bug", "in", "amateur"}

wordsToRemove == <<"Paris", "India">>

\* new RegExp(`\\b${word}\\b|\\b${word}s\\b`, "i"): no g flag
GEO_TERM_PATTERNS ==
    [k \in 1..Len(wordsToRemove) |->
        Alt(<<Cat(<<WordBoundary, LitI(wordsToRemove[k]), WordBoundary>>),
              Cat(<<WordBoundary, LitI(wordsToRemove[k]), LitI("s"), WordBoundary>>)>>)]

\* /[...]/g (the source's class, but for the backtick, which no text of the
\* model holds)
WORD_PUNCTUATION_REGEX ==
    Class(CharsOf("'-~!@#$%^&*()+={}[]|:;<>?,./") \cup {"\"", "\\"})

\* /\s+/g
WHITESPACE_REGEX == Plus(Class(WhitespaceSet))

\* /[^\p{L}\s.,!?:;'"()-]/gu
NON_LETTER_REGEX ==
    Class(Alphabet \ (LetterSet \cup WhitespaceSet \cup CharsOf(".,!?:;'\"()-")))

\* /^[a-zA-Z0-9'-]+$/
ENGLISH_CHARS_REGEX ==
    Cat(<<StartAnchor,
          Plus(Class(LowerSet \cup UpperSet \cup DigitSet \cup {"'", "-"})),
          EndAnchor>>)

\* /^\d+$/
NUMBERS_ONLY_REGEX == Cat(<<StartAnchor, Plus(Class(DigitSet)), EndAnchor>>)

\* /^[A-Z]{2,}[0-9]*$/
ABBREVIATION_REGEX ==
    Cat(<<StartAnchor, Upper(2, -1), Star(Class(DigitSet)), EndAnchor>>)

---------------------------------------------------------------------------
(* The two caches.  A JavaScript Map iterates in insertion order; a cache   *)
(* is the sequence of its entries in that order, oldest first.  An entry is *)
(* [key, value, run]: run = 0 for one entry under `key`; run = n > 0 stands *)
(* for n consecutive entries whose keys are strings outside the model's     *)
(* texts and words (inserted by calls the model does not follow one by      *)
(* one), so that a cache can be at its capacity of 1000 or 5000 entries.    *)

Entry(key, value)  == [key |-> key, value |-> value, run |-> 0]
Others(n, value)   == [key |-> "", value |-> value, run |-> n]

RECURSIVE sizeFrom(_, _)
sizeFrom(cache, k) ==
    IF k > Len(cache) THEN 0
    ELSE (IF cache[k].run = 0 THEN 1 ELSE cache[k].run) + sizeFrom(cache, k + 1)

cacheSize(cache) == sizeFrom(cache, 1)                \* Map.prototype.size

cacheHas(cache, key) ==                               \* Map.prototype.has
    \E k \in 1..Len(cache) : cache[k].run = 0 /\ cache[k].key = key

cacheGet(cache, key) ==                               \* Map.prototype.get
    cache[CHOOSE k \in 1..Len(cache) : cache[k].run = 0 /\ cache[k].key = key].value

\* cache.delete(cache.keys().next().value): the first key in insertion order
cacheDeleteFirst(cache) ==
    IF Len(cache) = 0 THEN cache
    ELSE IF cache[1].run > 1
         THEN <<[cache[1] EXCEPT !.run = @ - 1]>> \o Tail(cache)
         ELSE Tail(cache)

\* Map.prototype.set: a present key keeps its place, a new key goes last
mapSet(cache, key, value) ==
    IF cacheHas(cache, key)
    THEN [k \in 1..Len(cache) |->
             IF cache[k].run = 0 /\ cache[k].key = key
             THEN Entry(key, value) ELSE cache[k]]
    ELSE Append(cache, Entry(key, value))

\* cacheSet with `>` for `>=`
cacheSet_offByOne(cache, limit, key, value) ==
    Bind(IF cacheSize(cache) > limit THEN cacheDeleteFirst(cache) ELSE cache,
         LAMBDA evicted : mapSet(evicted, key, value))

\* cacheSet deleting the last key for the first
cacheSet_evictsNewest(cache, limit, key, value) ==
    Bind(IF cacheSize(cache) >= limit
         THEN (IF cache[Len(cache)].run > 1
               THEN [cache EXCEPT ![Len(cache)].run = @ - 1]
               ELSE SubSeq(cache, 1, Len(cache) - 1))
         ELSE cache,
         LAMBDA evicted : mapSet(evicted, key, value))

cacheSet(cache, limit, key, value) ==
    Bind(IF cacheSize(cache) >= limit THEN cacheDeleteFirst(cache) ELSE cache,
         LAMBDA evicted : mapSet(evicted, key, value))

---------------------------------------------------------------------------
(* Utility helpers *)

\* A JavaScript value handed to the public API: [type |-> "null"],
\* [type |-> "undefined"], [type |-> "number", number |-> n] or
\* [type |-> "string", value |-> s].
Str(s) == [type |-> "string", value |-> s]

isNonEmptyString(v) == v.type = "string" /\ Len(v.value) > 0

RECURSIVE trimStart(_), trimEnd(_)
trimStart(s) ==
    IF Len(s) > 0 /\ SubSeq(s, 1, 1) \in WhitespaceSet
    THEN trimStart(Rest(s, 1)) ELSE s
trimEnd(s) ==
    IF Len(s) > 0 /\ SubSeq(s, Len(s), Len(s)) \in WhitespaceSet
    THEN trimEnd(SubSeq(s, 1, Len(s) - 1)) ELSE s

\* String.prototype.trim
trim(s) == Bind(s, LAMBDA x : Bind(trimStart(x), trimEnd))

normalizeWhitespace(text) == trim(Replace(text, WHITESPACE_REGEX, " ", TRUE))

\* String.prototype.split(" "): the pieces between single spaces; the empty
\* string splits into one empty piece
RECURSIVE splitFrom(_, _)
splitFrom(s, i) ==
    LET spaces == {k \in (i + 1)..Len(s) : SubSeq(s, k, k) = " "}
    IN  IF spaces = {} THEN <<Rest(s, i)>>
        ELSE Bind(CHOOSE x \in spaces : \A y \in spaces : x <= y,
                  LAMBDA k : <<(IF k = i + 1 THEN "" ELSE SubSeq(s, i + 1, k - 1))>>
                                 \o splitFrom(s, k))

split(s) == Bind(s, LAMBDA x : splitFrom(x, 0))

\* s.includes(c) for a one-character c
includes(s, c) == \E k \in 1..Len(s) : SubSeq(s, k, k) = c

\* arr.slice(0, n)
slice(arr, n) == SubSeq(arr, 1, IF Len(arr) < n THEN Len(arr) ELSE n)

---------------------------------------------------------------------------
(* Document pattern operations and the preprocessor *)

\* matchesDocumentPattern without the third shape
matchesDocumentPattern_hyphenatedOnly(text) ==
    IF ~isNonEmptyString(text) THEN FALSE
    ELSE \E k \in 1..2 : Test(DOCUMENT_PATTERNS_MATCH[k], text.value)

matchesDocumentPattern(text) ==
    IF ~isNonEmptyString(text) THEN FALSE
    ELSE \E k \in 1..Len(DOCUMENT_PATTERNS_MATCH) :
             Test(DOCUMENT_PATTERNS_MATCH[k], text.value)

RECURSIVE removeEach(_, _, _, _)
\* for (const pattern of patterns) text = text.replace(pattern, "")
removeEach(text, patterns, k, global) ==
    IF k > Len(patterns) THEN text
    ELSE removeEach(Replace(text, patterns[k], "", global), patterns, k + 1, global)

removeDocumentPatterns(text) ==
    normalizeWhitespace(removeEach(text, DOCUMENT_PATTERNS_REMOVE, 1, TRUE))

removeGeographicalTerms(inputText) ==
    Bind(inputText,
         LAMBDA result :
             IF Len(result) = 0 THEN result
             ELSE normalizeWhitespace(removeEach(result, GEO_TERM_PATTERNS, 1, FALSE)))

\* The RegExp objects a caller may pass as customPatterns, by name: the
\* pattern and whether it carries the g flag.
CustomPattern(name) ==
    CASE name = "TICKET" ->    \* /\bTICKET-\d+\b/g
            [re |-> Cat(<<WordBoundary, Lit("TICKET-"), Plus(Class(DigitSet)),
                          WordBoundary>>), global |-> TRUE]
      [] name = "PROJ" ->      \* /PROJ-\d+/g
            [re |-> Cat(<<Lit("PROJ-"), Plus(Class(DigitSet))>>), global |-> TRUE]
      [] name = "REF" ->       \* /REF#\d+/ (no g flag)
            [re |-> Cat(<<Lit("REF#"), Plus(Class(DigitSet))>>), global |-> FALSE]
      [] name = "DIGITS" ->    \* /\d+/g
            [re |-> Plus(Class(DigitSet)), global |-> TRUE]

RECURSIVE removeCustom(_, _, _), removeExcluded(_, _, _)
removeCustom(text, customPatterns, k) ==
    IF k > Len(customPatterns) THEN text
    ELSE LET pattern == CustomPattern(customPatterns[k])
         IN  removeCustom(Replace(text, pattern.re, "", pattern.global),
                          customPatterns, k + 1)

\* the word is escaped, so it is matched literally; flags "gi"
removeExcluded(text, excludeWords, k) ==
    IF k > Len(excludeWords) THEN text
    ELSE removeExcluded(
             Replace(text, Cat(<<WordBoundary, LitI(excludeWords[k]), WordBoundary>>),
                     "", TRUE),
             excludeWords, k + 1)

\* preprocessText stripping the non-letters before the customPatterns and
\* the excludeWords are applied
preprocessText_stripsFirst(text, customPatterns, excludeWords) ==
    LET noDocs    == removeDocumentPatterns(text)
        noGeo     == removeGeographicalTerms(noDocs)
        stripped  == Replace(noGeo, NON_LETTER_REGEX, " ", TRUE)
        noCustom  == removeCustom(stripped, customPatterns, 1)
        noExclude == removeExcluded(noCustom, excludeWords, 1)
    IN  normalizeWhitespace(noExclude)

\* preprocessText without the non-letter stripping
preprocessText_keepsDigits(text, customPatterns, excludeWords) ==
    LET noDocs    == removeDocumentPatterns(text)
        noGeo     == removeGeographicalTerms(noDocs)
        noCustom  == removeCustom(noGeo, customPatterns, 1)
        noExclude == removeExcluded(noCustom, excludeWords, 1)
    IN  normalizeWhitespace(noExclude)

preprocessText(text, customPatterns, excludeWords) ==
    LET noDocs    == removeDocumentPatterns(text)
        noGeo     == removeGeographicalTerms(noDocs)
        noCustom  == removeCustom(noGeo, customPatterns, 1)
        noExclude == removeExcluded(noCustom, excludeWords, 1)
    IN  normalizeWhitespace(Replace(noExclude, NON_LETTER_REGEX, " ", TRUE))

---------------------------------------------------------------------------
(* Non-English indicator checks and the word classifier *)

hasNonEnglishCharacters(text) == Test(NON_ENGLISH_CHARS_REGEX, text)

hasNonEnglishEndings(text) == Test(NON_ENGLISH_ENDINGS_REGEX, text)

hasNonEnglishWordPatterns(text) ==
    \E k \in 1..Len(NON_ENGLISH_WORD_PATTERNS) :
        toLowerCase(text) \in NON_ENGLISH_WORD_PATTERNS[k]

hasObviousNonEnglishIndicators(text) ==
    IF Len(text) < 2 THEN FALSE
    ELSE IF ~includes(text, " ")
            /\ (hasNonEnglishCharacters(text) \/ hasNonEnglishEndings(text))
         THEN TRUE
         ELSE \/ hasNonEnglishWordPatterns(text)
              \/ toLowerCase(text) \in NON_ENGLISH_FUNCTION_WORDS_REGEX

hasOnlyEnglishCharacters(word) == Test(ENGLISH_CHARS_REGEX, word)

\* word.split("'")[0]
contractionBase(word) ==
    LET k == CHOOSE j \in 1..Len(word) :
                 /\ SubSeq(word, j, j) = "'"
                 /\ \A h \in 1..(j - 1) : SubSeq(word, h, h) # "'"
    IN  IF k = 1 THEN "" ELSE SubSeq(word, 1, k - 1)

\* isEnglishWord looking the word up in the dictionary before it is screened
isEnglishWord_dictionaryFirst(word, options) ==
    IF ~hasOnlyEnglishCharacters(word) THEN FALSE
    ELSE IF options.allowNumbers /\ Test(NUMBERS_ONLY_REGEX, word) THEN TRUE
    ELSE IF word \in englishDictionary THEN TRUE
    ELSE IF hasObviousNonEnglishIndicators(word) THEN FALSE
    ELSE IF includes(word, "'") /\ contractionBase(word) \in englishDictionary THEN TRUE
    ELSE FALSE

isEnglishWord(word, options) ==
    IF ~hasOnlyEnglishCharacters(word) THEN FALSE
    ELSE IF options.allowNumbers /\ Test(NUMBERS_ONLY_REGEX, word) THEN TRUE
    ELSE IF hasObviousNonEnglishIndicators(word) THEN FALSE
    ELSE IF word \in englishDictionary THEN TRUE
    ELSE IF includes(word, "'") /\ contractionBase(word) \in englishDictionary THEN TRUE
    ELSE FALSE

BoolString(b) == IF b THEN "true" ELSE "false"        \* `${b}`

\* `${word}_${options.allowNumbers}_${options.allowAbbreviations}`
wordCacheKey(word, options) ==
    word \o "_" \o BoolString(options.allowNumbers)
         \o "_" \o BoolString(options.allowAbbreviations)

---------------------------------------------------------------------------
(* The inputs of the model, and the pure steps of the pipeline evaluated    *)
(* once per argument (a call's preprocessing and word verdicts depend on    *)
(* its arguments only; the tables below hold them, so that a step of the    *)
(* model does not run the pattern matcher again).                           *)

NoOptions == <<>>                                      \* {}

Null      == [type |-> "null"]
Undefined == [type |-> "undefined"]
Number(n) == [type |-> "number", number |-> n]

\* texts of the process model (Spec)
Texts == {"the cat", "le chat", "the cat is a le"}

\* texts of the decision model (SpecDecide): blank texts; texts of 1 to 4
\* tokens; texts of 5 and more tokens with ratios from 0 to 1
BlankTexts == {"", " ", "   ", " \t\n "}

ShortTexts ==
    {"hello", "Hello mundo", "hello world", "le chat", "the cat le",
     "the cat a le", "the cat is le", "a I", "NATO FBI le", "12345"}

LongTexts ==
    {"the cat is the fox", "the cat is the chat", "the cat is a le",
     "the cat le a a", "the cat is le chat", "le chat la les des",
     "the cat is the fox the cat le le le", "NATO FBI le la les",
     "TICKET-99 the cat is le chat", "the theater is a le chat"}

\* texts with apostrophes, digits, repeated exclude-words and geo-terms,
\* and document IDs
PreprocessTexts ==
    {"don't", "the cat can't do it", "the cat'zzqx", "le 123 456 789",
     "The cat THE fox the theater", "le café", "Paris the cat Paris",
     "the cat is in paris", "AB1-C2 the cat", "AEM01-WI-DSU06-SD01 is ready"}

\* texts of uppercase words, and the same texts in lower case
UppercaseTexts == {"DER LES UND", "DIE UND DER LES DAS", "NATO FBI", "DER, LES!"}
LowercaseTexts == {"der les und", "die und der les das", "nato fbi", "der, les!"}

DecideTexts ==
    BlankTexts \cup ShortTexts \cup LongTexts \cup PreprocessTexts
        \cup UppercaseTexts \cup LowercaseTexts

CustomPatternLists == {<<>>, <<"TICKET">>}
ExcludeWordLists == {<<>>, <<"the">>, <<"café">>}

\* calls whose result depends on the order of the preprocessing stages:
\* <<text, customPatterns, excludeWords>>
OrderCalls ==
    {<<"AB12-PARIS the cat", <<>>, <<>>>>,
     <<"Paris1 the cat", <<"DIGITS">>, <<>>>>,
     <<"TICKET-99 the cat", <<"TICKET">>, <<"TICKET">>>>,
     <<"TICKET-99 the cat", <<"DIGITS", "TICKET">>, <<>>>>,
     <<"TICKET-99 the cat", <<"TICKET", "DIGITS">>, <<>>>>,
     <<"the1 cat", <<>>, <<"the">>>>,
     <<"the 1 cat", <<>>, <<>>>>,
     <<"a-b cat", <<>>, <<"a", "a-b">>>>,
     <<"a-b cat", <<>>, <<"a-b", "a">>>>}

\* preprocessText(...).split(" ")
wordsTable ==
    Table([a \in ((Texts \cup DecideTexts) \X CustomPatternLists \X ExcludeWordLists)
                     \cup OrderCalls |->
              split(preprocessText(a[1], a[2], a[3]))])

wordsOnce(text, customPatterns, excludeWords) ==
    wordsTable[<<text, customPatterns, excludeWords>>]

\* texts given to matchesDocumentPattern (SpecDocument)
DocumentTexts ==
    {"", "AEM01-WI-DSU06-SD01", "AURG340-SF06", "AEM01", "hello world",
     "see AB12 now", "ab12", "A1", "AB", "ABCDEFG1", "AB12345", "XAB12x",
     "AB_12", "AB-12", "AB1-C2", "AB12-hello"}

matchesDocumentPatternTable ==
    Table([t \in Texts \cup DecideTexts \cup DocumentTexts |->
              matchesDocumentPattern(Str(t))])

matchesDocumentPatternOnce(text) ==
    IF text.type = "string" THEN matchesDocumentPatternTable[text.value]
    ELSE matchesDocumentPattern(text)

Range(f) == {f[k] : k \in DOMAIN f}

\* every element of `words` a call of the model can loop over
Tokens == UNION {Range(wordsTable[a]) : a \in DOMAIN wordsTable}

\* per token: word.replace(WORD_PUNCTUATION_REGEX, "").trim(), whether
\* ABBREVIATION_REGEX.test(cleanWord), and cleanWord.toLowerCase()
tokenTable ==
    Table([word \in Tokens |->
              Bind(trim(Replace(word, WORD_PUNCTUATION_REGEX, "", TRUE)),
                   LAMBDA cleanWord :
                       [cleanWord    |-> cleanWord,
                        abbreviation |-> Test(ABBREVIATION_REGEX, cleanWord),
                        lower        |-> toLowerCase(cleanWord)])])

\* lower-case words given to the word classifier on their own: plain,
\* screened, numeric, with apostrophes and hyphens, with other characters
ClassifierWords ==
    {"", "a", "x", "the", "cat", "zzqx", "die", "come", "le", "und", "amateur",
     "moeilijk", "0", "123", "12a", "a1", "12-3", "don't", "cat's", "die's",
     "le's", "x'y", "'s", "cat'", "can't've", "big-fix", "the-cat", "café",
     "the cat", "the_cat", "mañana"}

\* isEnglishWord on the lower-cased words, under either allowNumbers
isEnglishWordTable ==
    Table([a \in ({tokenTable[t].lower : t \in Tokens} \cup ClassifierWords)
                     \X BOOLEAN |->
              isEnglishWord(a[1], [allowNumbers |-> a[2],
                                   allowAbbreviations |-> TRUE])])

isEnglishWordOnce(word, options) == isEnglishWordTable[<<word, options.allowNumbers>>]

\* returns the verdict, the word cache the call leaves, and whether the
\* verdict came from the cache
\* isEnglishWordCached moving the entry it hits to the end (a true LRU)
isEnglishWordCached_refreshesOnHit(word, options, wc) ==
    Bind(wordCacheKey(word, options),
         LAMBDA cacheKey :
             IF cacheHas(wc, cacheKey)
             THEN [result |-> cacheGet(wc, cacheKey),
                   wordCache |->
                       Append(SelectSeq(wc, LAMBDA e : ~(e.run = 0 /\ e.key = cacheKey)),
                              Entry(cacheKey, cacheGet(wc, cacheKey))),
                   hit |-> TRUE]
             ELSE Bind(isEnglishWordOnce(word, options),
                       LAMBDA result :
                           [result |-> result,
                            wordCache |-> cacheSet(wc, WORD_CACHE_LIMIT, cacheKey,
                                                   result),
                            hit |-> FALSE]))

\* isEnglishWordCached inserting with Map.prototype.set alone, no eviction
isEnglishWordCached_neverEvicts(word, options, wc) ==
    Bind(wordCacheKey(word, options),
         LAMBDA cacheKey :
             IF cacheHas(wc, cacheKey)
             THEN [result |-> cacheGet(wc, cacheKey), wordCache |-> wc, hit |-> TRUE]
             ELSE Bind(isEnglishWordOnce(word, options),
                       LAMBDA result :
                           [result |-> result,
                            wordCache |-> mapSet(wc, cacheKey, result),
                            hit |-> FALSE]))

isEnglishWordCached(word, options, wc) ==
    Bind(wordCacheKey(word, options),
         LAMBDA cacheKey :
             IF cacheHas(wc, cacheKey)
             THEN [result |-> cacheGet(wc, cacheKey), wordCache |-> wc, hit |-> TRUE]
             ELSE Bind(isEnglishWordOnce(word, options),
                       LAMBDA result :
                           [result |-> result,
                            wordCache |-> cacheSet(wc, WORD_CACHE_LIMIT, cacheKey,
                                                   result),
                            hit |-> FALSE]))

---------------------------------------------------------------------------
(* Core language analysis.  francAll is the external n-gram identifier: a   *)
(* deterministic function from a text to a ranking of <<language,           *)
(* confidence>> pairs (confidence in hundredths), best first.  Which        *)
(* function it is is not this repository's to fix: francSeed ranges over a  *)
(* family of them that gives every text every ranking below.  The franc     *)
(* package never returns an empty ranking (it answers <<"und", 1>> when it  *)
(* cannot tell); a negative francSeed stands for an identifier that does.   *)

FRANC_RANKINGS == <<
    <<<<"eng", 100>>, <<"sco", 93>>, <<"deu", 60>>>>,
    <<<<"deu", 100>>, <<"eng", 90>>, <<"nld", 85>>>>,
    <<<<"deu", 100>>, <<"nld", 92>>, <<"eng", 89>>>>,
    <<<<"fra", 100>>, <<"spa", 99>>, <<"ita", 98>>, <<"por", 97>>, <<"cat", 96>>,
      <<"eng", 95>>>>,
    <<<<"und", 100>>>> >>

francAll(text) ==
    IF francSeed < 0 THEN <<>>
    ELSE FRANC_RANKINGS[((Len(text) + francSeed) % Len(FRANC_RANKINGS)) + 1]

\* firstEnglish without the confidence test
firstEnglish_anyConfidence(top) ==
    IF \E k \in 1..Len(top) : top[k][1] = "eng"
    THEN CHOOSE k \in 1..Len(top) :
             /\ top[k][1] = "eng"
             /\ \A h \in 1..(k - 1) : top[h][1] # "eng"
    ELSE 0

\* the first of `top` that is "eng" with conf >= 0.9, or 0
firstEnglish(top) ==
    IF \E k \in 1..Len(top) : top[k][1] = "eng" /\ top[k][2] >= 90
    THEN CHOOSE k \in 1..Len(top) :
             /\ top[k][1] = "eng" /\ top[k][2] >= 90
             /\ \A h \in 1..(k - 1) : ~(top[h][1] = "eng" /\ top[h][2] >= 90)
    ELSE 0

\* returns the status, the LanguageResult, the franc cache the call leaves
\* and whether the result came from the cache
\* francLanguageAnalysis caching the first-ranked pair, whichever it returns
francLanguageAnalysis_cachesFirstRanked(cleanText, fc) ==
    IF cacheHas(fc, cleanText)
    THEN [status |-> "returns", language |-> cacheGet(fc, cleanText)[1],
          confidence |-> cacheGet(fc, cleanText)[2], francCache |-> fc,
          hit |-> TRUE]
    ELSE Bind(francAll(cleanText),
              LAMBDA detectedLanguage :
                  Bind(IF firstEnglish(slice(detectedLanguage, 5)) > 0
                       THEN detectedLanguage[firstEnglish(slice(detectedLanguage, 5))]
                       ELSE detectedLanguage[1],
                       LAMBDA result :
                           [status |-> "returns", language |-> result[1],
                            confidence |-> result[2],
                            francCache |-> cacheSet(fc, FRANC_CACHE_LIMIT, cleanText,
                                                    detectedLanguage[1]),
                            hit |-> FALSE]))

francLanguageAnalysis(cleanText, fc) ==
    IF cacheHas(fc, cleanText)
    THEN [status |-> "returns", language |-> cacheGet(fc, cleanText)[1],
          confidence |-> cacheGet(fc, cleanText)[2], francCache |-> fc,
          hit |-> TRUE]
    ELSE Bind(francAll(cleanText),
              LAMBDA detectedLanguage :
                  IF Len(detectedLanguage) = 0
                  THEN \* destructuring detectedLanguage[0]: TypeError
                       [status |-> "throws", language |-> "", confidence |-> 0,
                        francCache |-> fc, hit |-> FALSE]
                  ELSE Bind(IF firstEnglish(slice(detectedLanguage, 5)) > 0
                            THEN detectedLanguage[firstEnglish(slice(detectedLanguage, 5))]
                            ELSE detectedLanguage[1],
                            LAMBDA result :
                                [status |-> "returns", language |-> result[1],
                                 confidence |-> result[2],
                                 francCache |-> cacheSet(fc, FRANC_CACHE_LIMIT,
                                                         cleanText, result),
                                 hit |-> FALSE]))

---------------------------------------------------------------------------
(* Public API.  Besides what the code returns, a call reports what it       *)
(* computed on its way (`observed`): its cache lookups in order, as         *)
(* [cache, key, hit], the number of tokens, the two word counts, and the    *)
(* LanguageResult if francLanguageAnalysis was called.                      *)

\* const { name = default } = options
Opt(options, name, default) ==
    IF name \in DOMAIN options THEN options[name] ELSE default

\* ratioAtLeast with the comparison turned round
ratioAtLeast_flipped(englishWordCount, totalRelevantWords, threshold) ==
    IF totalRelevantWords > 0
    THEN englishWordCount * 100 <= threshold * totalRelevantWords
    ELSE 100 <= threshold

\* englishRatio >= threshold, the threshold in hundredths
ratioAtLeast(englishWordCount, totalRelevantWords, threshold) ==
    IF totalRelevantWords > 0
    THEN englishWordCount * 100 >= threshold * totalRelevantWords
    ELSE 100 >= threshold

\* wordStep taking the abbreviation shortcut whatever allowAbbreviations is
wordStep_alwaysShortcut(word, o, acc) ==
    Bind(tokenTable[word],
         LAMBDA token :
             IF Len(token.cleanWord) < o.minWordLength THEN acc
             ELSE IF token.abbreviation
             THEN [acc EXCEPT !.totalRelevantWords = @ + 1,
                              !.englishWordCount = @ + 1]
             ELSE Bind(isEnglishWordCached(token.lower, o, acc.wordCache),
                       LAMBDA w :
                           [totalRelevantWords |-> acc.totalRelevantWords + 1,
                            englishWordCount |->
                                acc.englishWordCount + (IF w.result THEN 1 ELSE 0),
                            wordCache |-> w.wordCache,
                            lookups |-> Append(acc.lookups,
                                [cache |-> "word",
                                 key |-> wordCacheKey(token.lower, o),
                                 hit |-> w.hit])]))

\* wordStep testing the abbreviation pattern on the lower-cased word
wordStep_lowercaseFirst(word, o, acc) ==
    Bind(tokenTable[word],
         LAMBDA token :
             IF Len(token.cleanWord) < o.minWordLength THEN acc
             ELSE IF o.allowAbbreviations /\ Test(ABBREVIATION_REGEX, token.lower)
             THEN [acc EXCEPT !.totalRelevantWords = @ + 1,
                              !.englishWordCount = @ + 1]
             ELSE Bind(isEnglishWordCached(token.lower, o, acc.wordCache),
                       LAMBDA w :
                           [totalRelevantWords |-> acc.totalRelevantWords + 1,
                            englishWordCount |->
                                acc.englishWordCount + (IF w.result THEN 1 ELSE 0),
                            wordCache |-> w.wordCache,
                            lookups |-> Append(acc.lookups,
                                [cache |-> "word",
                                 key |-> wordCacheKey(token.lower, o),
                                 hit |-> w.hit])]))

\* wordStep caching the verdict of the abbreviation shortcut
wordStep_cachesShortcut(word, o, acc) ==
    Bind(tokenTable[word],
         LAMBDA token :
             IF Len(token.cleanWord) < o.minWordLength THEN acc
             ELSE IF o.allowAbbreviations /\ token.abbreviation
             THEN [acc EXCEPT !.totalRelevantWords = @ + 1,
                              !.englishWordCount = @ + 1,
                              !.wordCache = cacheSet(@, WORD_CACHE_LIMIT,
                                                     wordCacheKey(token.lower, o),
                                                     TRUE)]
             ELSE Bind(isEnglishWordCached(token.lower, o, acc.wordCache),
                       LAMBDA w :
                           [totalRelevantWords |-> acc.totalRelevantWords + 1,
                            englishWordCount |->
                                acc.englishWordCount + (IF w.result THEN 1 ELSE 0),
                            wordCache |-> w.wordCache,
                            lookups |-> Append(acc.lookups,
                                [cache |-> "word",
                                 key |-> wordCacheKey(token.lower, o),
                                 hit |-> w.hit])]))

\* one iteration of the for loop over words
wordStep(word, o, acc) ==
    Bind(tokenTable[word],
         LAMBDA token :
             IF Len(token.cleanWord) < o.minWordLength THEN acc
             ELSE IF o.allowAbbreviations /\ token.abbreviation
             THEN [acc EXCEPT !.totalRelevantWords = @ + 1,
                              !.englishWordCount = @ + 1]
             ELSE Bind(isEnglishWordCached(token.lower, o, acc.wordCache),
                       LAMBDA w :
                           [totalRelevantWords |-> acc.totalRelevantWords + 1,
                            englishWordCount |->
                                acc.englishWordCount + (IF w.result THEN 1 ELSE 0),
                            wordCache |-> w.wordCache,
                            lookups |-> Append(acc.lookups,
                                [cache |-> "word",
                                 key |-> wordCacheKey(token.lower, o),
                                 hit |-> w.hit])]))

\* the for loop over words, from words[k] on
RECURSIVE wordLoop(_, _, _, _)
wordLoop(words, k, o, acc) ==
    IF k > Len(words) THEN acc
    ELSE Bind(wordStep(words[k], o, acc),
              LAMBDA next : wordLoop(words, k + 1, o, next))

\* isBlankInput without the trim() test
isBlankInput_noTrim(inputText) == ~isNonEmptyString(inputText)

\* if (!isNonEmptyString(inputText) || inputText.trim().length === 0)
isBlankInput(inputText) ==
    ~isNonEmptyString(inputText) \/ Len(trim(inputText.value)) = 0

\* effectiveThreshold with `<` for `<=`
effectiveThreshold_offByOne(words, englishThreshold) ==
    IF Len(words) < 4 THEN 60 ELSE englishThreshold

\* if (words.length <= 4) englishThreshold = 0.6
effectiveThreshold(words, englishThreshold) ==
    IF Len(words) <= 4 THEN 60 ELSE englishThreshold

\* trigramRescue with `>` for the first `>=`
trigramRescue_strict(language, confidence, englishWordCount, totalRelevantWords) ==
    language = "eng" /\ confidence > 90
        /\ ratioAtLeast(englishWordCount, totalRelevantWords, 70)

\* trigramRescue with a ratio of 0.5 for 0.7
trigramRescue_halfRatio(language, confidence, englishWordCount, totalRelevantWords) ==
    language = "eng" /\ confidence >= 90
        /\ ratioAtLeast(englishWordCount, totalRelevantWords, 50)

\* language === "eng" && confidence >= 0.9 && englishRatio >= 0.7
trigramRescue(language, confidence, englishWordCount, totalRelevantWords) ==
    language = "eng" /\ confidence >= 90
        /\ ratioAtLeast(englishWordCount, totalRelevantWords, 70)

NoObservation ==
    [lookups |-> <<>>, words |-> 0, englishWordCount |-> 0,
     totalRelevantWords |-> 0, franc |-> <<>>]

\* the rest of detectNonEnglishText once the loop over words has counted
decide(francInputText, words, englishThreshold, counted, fc) ==
    LET seen == [lookups |-> counted.lookups, words |-> Len(words),
                 englishWordCount |-> counted.englishWordCount,
                 totalRelevantWords |-> counted.totalRelevantWords,
                 franc |-> <<>>]
    IN
    IF ratioAtLeast(counted.englishWordCount, counted.totalRelevantWords,
                    effectiveThreshold(words, englishThreshold))
    THEN [status |-> "returns", value |-> FALSE, francCache |-> fc,
          wordCache |-> counted.wordCache, observed |-> seen]
    ELSE Bind(francLanguageAnalysis(francInputText, fc),
              LAMBDA franc :
                  [status |-> franc.status,
                   value |-> IF franc.status = "throws" THEN FALSE
                             ELSE ~trigramRescue(franc.language, franc.confidence,
                                                 counted.englishWordCount,
                                                 counted.totalRelevantWords),
                   francCache |-> franc.francCache,
                   wordCache |-> counted.wordCache,
                   observed |->
                       [seen EXCEPT !.lookups = Append(@, [cache |-> "franc",
                                                           key |-> francInputText,
                                                           hit |-> franc.hit]),
                                    !.franc = <<franc.language, franc.confidence>>]])

\* detectNonEnglishText called with the caches fc and wc: whether it returns
\* or throws, the value returned, and the caches it leaves
detectNonEnglishText(inputText, options, fc, wc) ==
    IF isBlankInput(inputText)
    THEN [status |-> "returns", value |-> FALSE, francCache |-> fc, wordCache |-> wc,
          observed |-> NoObservation]
    ELSE Bind([minWordLength      |-> Opt(options, "minWordLength", 2),
               allowNumbers       |-> Opt(options, "allowNumbers", TRUE),
               allowAbbreviations |-> Opt(options, "allowAbbreviations", TRUE),
               customPatterns     |-> Opt(options, "customPatterns", <<>>),
               excludeWords       |-> Opt(options, "excludeWords", <<>>),
               englishThreshold   |-> Opt(options, "englishThreshold", 80),
               francInputText     |-> inputText.value,
               words |-> wordsOnce(inputText.value,
                                   Opt(options, "customPatterns", <<>>),
                                   Opt(options, "excludeWords", <<>>))],
              LAMBDA o :
                  IF Len(o.words) = 0
                  THEN [status |-> "returns", value |-> FALSE, francCache |-> fc,
                        wordCache |-> wc, observed |-> NoObservation]
                  ELSE Bind(wordLoop(o.words, 1, o,
                                [totalRelevantWords |-> 0, englishWordCount |-> 0,
                                 wordCache |-> wc, lookups |-> <<>>]),
                            LAMBDA counted :
                                decide(o.francInputText, o.words, o.englishThreshold,
                                       counted, fc)))

\* isEnglish without the negation
isEnglish_notNegated(inputText, options, fc, wc) ==
    detectNonEnglishText(inputText, options, fc, wc)

\* isEnglish answering false for a blank input
isEnglish_falseOnBlank(inputText, options, fc, wc) ==
    Bind(detectNonEnglishText(inputText, options, fc, wc),
         LAMBDA d : [d EXCEPT !.value = IF d.status = "returns"
                                        THEN ~@ /\ ~isBlankInput(inputText)
                                        ELSE @])

\* return !detectNonEnglishText(inputText, options)
isEnglish(inputText, options, fc, wc) ==
    Bind(detectNonEnglishText(inputText, options, fc, wc),
         LAMBDA d : [d EXCEPT !.value = IF d.status = "returns" THEN ~@ ELSE @])

\* clearLanguageDetectorCaches clearing the trigram cache only
clearLanguageDetectorCaches_keepsWords(fc, wc) ==
    [status |-> "returns", value |-> FALSE, francCache |-> <<>>,
     wordCache |-> wc, observed |-> NoObservation]

\* francCache.clear(); wordCache.clear()
clearLanguageDetectorCaches(fc, wc) ==
    [status |-> "returns", value |-> FALSE, francCache |-> <<>>,
     wordCache |-> <<>>, observed |-> NoObservation]

---------------------------------------------------------------------------
(* The process: a sequence of calls of the public API on the module's two   *)
(* caches.                                                                  *)

MaxCalls == 2

Arguments == {Str(t) : t \in Texts} \cup {Null}

OptionRecords == {NoOptions, [allowAbbreviations |-> FALSE]}

\* The caches a process can hold when the model starts to follow it: empty,
\* or those one earlier call left ("warm"), followed ("full", "almost": one
\* entry below the capacity) or preceded ("old") by the entries of calls on
\* other texts and words, up to the capacity.
filled(cache, limit, slack, value) ==
    IF cacheSize(cache) + slack < limit
    THEN cache \o <<Others(limit - slack - cacheSize(cache), value)>>
    ELSE cache

CacheShapes == {"empty", "warm", "full", "almost", "old"}

shaped(cache, limit, shape, value) ==
    CASE shape = "empty"  -> <<>>
      [] shape = "warm"   -> cache
      [] shape = "full"   -> filled(cache, limit, 0, value)
      [] shape = "almost" -> filled(cache, limit, 1, value)
      [] shape = "old"    -> <<Others(limit - cacheSize(cache), value)>> \o cache

NoCall == [op |-> "none", inputText |-> Undefined, options |-> NoOptions]

Init ==
    /\ francSeed \in 0..(Len(FRANC_RANKINGS) - 1)
    /\ \E t \in {"le chat", "the cat is a le"}, shape \in CacheShapes :
          LET d == detectNonEnglishText(Str(t), NoOptions, <<>>, <<>>)
          IN  /\ francCache = shaped(d.francCache, FRANC_CACHE_LIMIT, shape,
                                     <<"und", 100>>)
              /\ wordCache = shaped(d.wordCache, WORD_CACHE_LIMIT, shape, FALSE)
    /\ call = NoCall
    /\ ret = [status |-> "none", value |-> FALSE]
    /\ observed = NoObservation
    /\ calls = 0
    /\ callers = <<>>

Returned(op, inputText, options, r) ==
    /\ francCache' = r.francCache
    /\ wordCache' = r.wordCache
    /\ call' = [op |-> op, inputText |-> inputText, options |-> options]
    /\ ret' = [status |-> r.status, value |-> r.value]
    /\ observed' = r.observed
    /\ calls' = calls + 1
    /\ UNCHANGED <<francSeed, callers>>

DetectNonEnglishText(inputText, options) ==
    /\ calls < MaxCalls
    /\ \E r \in {detectNonEnglishText(inputText, options, francCache, wordCache)} :
          Returned("detectNonEnglishText", inputText, options, r)

IsEnglish(inputText, options) ==
    /\ calls < MaxCalls
    /\ \E r \in {isEnglish(inputText, options, francCache, wordCache)} :
          Returned("isEnglish", inputText, options, r)

MatchesDocumentPattern(text) ==
    /\ calls < MaxCalls
    /\ Returned("matchesDocumentPattern", text, NoOptions,
                [status |-> "returns", value |-> matchesDocumentPatternOnce(text),
                 francCache |-> francCache, wordCache |-> wordCache,
                 observed |-> NoObservation])

ClearLanguageDetectorCaches ==
    /\ calls < MaxCalls
    /\ Returned("clearLanguageDetectorCaches", Undefined, NoOptions,
                clearLanguageDetectorCaches(francCache, wordCache))

Next ==
    \/ \E a \in Arguments, o \in OptionRecords : DetectNonEnglishText(a, o)
    \/ \E a \in Arguments, o \in OptionRecords : IsEnglish(a, o)
    \/ \E a \in Arguments : MatchesDocumentPattern(a)
    \/ ClearLanguageDetectorCaches

Spec == Init /\ [][Next]_vars

---------------------------------------------------------------------------
(* The decision alone: one call of detectNonEnglishText or isEnglish, from  *)
(* empty caches, on a wider range of inputs and options.                    *)

Thresholds == {0, 50, 60, 70, 75, 80, 95, 100}         \* hundredths

DecideArguments ==
    {Str(t) : t \in DecideTexts} \cup {Null, Undefined, Number(0), Number(123)}

DecideOptions ==
    {NoOptions}
    \cup {[englishThreshold |-> t] : t \in Thresholds}
    \cup {[englishThreshold |-> t, minWordLength |-> m] :
             t \in Thresholds, m \in {0, 1, 3}}
    \cup {[englishThreshold |-> t, allowAbbreviations |-> FALSE] : t \in Thresholds}
    \cup {[customPatterns |-> <<"TICKET">>], [excludeWords |-> <<"the">>],
          [excludeWords |-> <<"café">>], [allowNumbers |-> FALSE]}

InitDecide ==
    /\ francSeed \in 0..(Len(FRANC_RANKINGS) - 1)
    /\ francCache = <<>>
    /\ wordCache = <<>>
    /\ \E op \in {"detectNonEnglishText", "isEnglish"},
          a \in DecideArguments, o \in DecideOptions :
          call = [op |-> op, inputText |-> a, options |-> o]
    /\ ret = [status |-> "pending", value |-> FALSE]
    /\ observed = NoObservation
    /\ calls = 0
    /\ callers = <<>>

DecideDetectNonEnglishText ==
    /\ ret.status = "pending"
    /\ call.op = "detectNonEnglishText"
    /\ \E r \in {detectNonEnglishText(call.inputText, call.options,
                                      francCache, wordCache)} :
          Returned(call.op, call.inputText, call.options, r)

DecideIsEnglish ==
    /\ ret.status = "pending"
    /\ call.op = "isEnglish"
    /\ \E r \in {isEnglish(call.inputText, call.options, francCache, wordCache)} :
          Returned(call.op, call.inputText, call.options, r)

NextDecide == DecideDetectNonEnglishText \/ DecideIsEnglish

SpecDecide == InitDecide /\ [][NextDecide]_vars

\* Calls of matchesDocumentPattern, from the caches a process can hold.
DocumentArguments ==
    {Str(t) : t \in DocumentTexts} \cup {Null, Undefined, Number(123)}

NextDocument == \E text \in DocumentArguments : MatchesDocumentPattern(text)

SpecDocument == Init /\ [][NextDocument]_vars

\* One call on empty caches with an n-gram identifier that returns the
\* empty ranking for every text.
InitEmptyRanking ==
    /\ francSeed = -1
    /\ francCache = <<>>
    /\ wordCache = <<>>
    /\ \E op \in {"detectNonEnglishText", "isEnglish"},
          a \in DecideArguments, o \in DecideOptions :
          call = [op |-> op, inputText |-> a, options |-> o]
    /\ ret = [status |-> "pending", value |-> FALSE]
    /\ observed = NoObservation
    /\ calls = 0
    /\ callers = <<>>

SpecEmptyRanking == InitEmptyRanking /\ [][NextDecide]_vars

\* One call on empty caches, on the texts and options of OrderCalls.
InitPreprocess ==
    /\ francSeed \in 0..(Len(FRANC_RANKINGS) - 1)
    /\ francCache = <<>>
    /\ wordCache = <<>>
    /\ \E op \in {"detectNonEnglishText", "isEnglish"}, a \in OrderCalls :
          call = [op |-> op, inputText |-> Str(a[1]),
                  options |-> [customPatterns |-> a[2], excludeWords |-> a[3]]]
    /\ ret = [status |-> "pending", value |-> FALSE]
    /\ observed = NoObservation
    /\ calls = 0
    /\ callers = <<>>

SpecPreprocess == InitPreprocess /\ [][NextDecide]_vars

\* One call of the word classifier, through its cache, on a word of
\* ClassifierWords.
InitWord ==
    /\ francSeed = 0
    /\ francCache = <<>>
    /\ wordCache = <<>>
    /\ \E word \in ClassifierWords, n \in BOOLEAN, b \in BOOLEAN :
          call = [op |-> "isEnglishWordCached", inputText |-> Str(word),
                  options |-> [allowNumbers |-> n, allowAbbreviations |-> b]]
    /\ ret = [status |-> "pending", value |-> FALSE]
    /\ observed = NoObservation
    /\ calls = 0
    /\ callers = <<>>

IsEnglishWordCached ==
    /\ ret.status = "pending"
    /\ call.op = "isEnglishWordCached"
    /\ \E w \in {isEnglishWordCached(call.inputText.value, call.options, wordCache)} :
          Returned(call.op, call.inputText, call.options,
                   [status |-> "returns", value |-> w.result,
                    francCache |-> francCache, wordCache |-> w.wordCache,
                    observed |->
                        [NoObservation EXCEPT !.lookups =
                            <<[cache |-> "word",
                               key |-> wordCacheKey(call.inputText.value, call.options),
                               hit |-> w.hit]>>]])

SpecWord == InitWord /\ [][IsEnglishWordCached]_vars

\* One call on the caches an earlier call left (empty, as left, or filled
\* up to the capacity), on texts with short tokens, abbreviations and
\* repeated words.
FrameTexts ==
    {"", " ", "le chat", "the cat", "a I", "NATO FBI", "NATO FBI le",
     "the cat is a le", "the cat le a a", "NATO FBI le la les",
     "the cat is the fox the cat le le le"}

FrameOptions ==
    {NoOptions, [allowAbbreviations |-> FALSE],
     [minWordLength |-> 3, englishThreshold |-> 50],
     [minWordLength |-> 1, englishThreshold |-> 100]}

InitFrame ==
    /\ francSeed \in 0..(Len(FRANC_RANKINGS) - 1)
    /\ \E t \in {"le chat", "NATO FBI le"}, shape \in {"empty", "warm", "full"} :
          LET d == detectNonEnglishText(Str(t), NoOptions, <<>>, <<>>)
          IN  /\ francCache = shaped(d.francCache, FRANC_CACHE_LIMIT, shape,
                                     <<"und", 100>>)
              /\ wordCache = shaped(d.wordCache, WORD_CACHE_LIMIT, shape, FALSE)
    /\ \E op \in {"detectNonEnglishText", "isEnglish"},
          a \in {Str(t) : t \in FrameTexts} \cup {Null}, o \in FrameOptions :
          call = [op |-> op, inputText |-> a, options |-> o]
    /\ ret = [status |-> "pending", value |-> FALSE]
    /\ observed = NoObservation
    /\ calls = 0
    /\ callers = <<>>

SpecFrame == InitFrame /\ [][NextDecide]_vars

---------------------------------------------------------------------------
(* Two callers inside isEnglishWordCached on the one word cache.  Under    *)
(* "atomic" a call runs from its lookup to its insert as one step, as every *)
(* call does in a JavaScript process; under "interleaved" the callers take  *)
(* the statements of isEnglishWordCached and cacheSet one at a time, in any *)
(* order, as threads without a lock would.                                  *)

CallerIds == {"A", "B"}
CallerWords == {"the", "cat", "le"}
CallerOptions == [allowNumbers |-> TRUE, allowAbbreviations |-> TRUE]

Idle == [pc |-> "idle", key |-> "", value |-> FALSE]

InitCallers ==
    /\ francSeed = 0
    /\ francCache = <<>>
    /\ \E shape \in {"empty", "almost", "full", "old"}, w \in {"zzqx", "le"} :
          wordCache = shaped(<<Entry(wordCacheKey(w, CallerOptions),
                                     isEnglishWordOnce(w, CallerOptions))>>,
                             WORD_CACHE_LIMIT, shape, FALSE)
    /\ call = NoCall
    /\ ret = [status |-> "none", value |-> FALSE]
    /\ observed = NoObservation
    /\ calls = 0
    /\ \E discipline \in {"atomic", "interleaved"} :
          callers = [discipline |-> discipline, at |-> [c \in CallerIds |-> Idle]]

Moves(c, wc, position) ==
    /\ wordCache' = wc
    /\ callers' = [callers EXCEPT !.at[c] = position]
    /\ UNCHANGED <<francCache, francSeed, call, ret, observed, calls>>

\* isEnglishWordCached(word, options), the whole call in one step
AtomicIsEnglishWordCached(c, word) ==
    /\ callers.discipline = "atomic"
    /\ callers.at[c].pc = "idle"
    /\ \E w \in {isEnglishWordCached(word, CallerOptions, wordCache)} :
          Moves(c, w.wordCache,
                [pc |-> "done", key |-> wordCacheKey(word, CallerOptions),
                 value |-> w.result])

\* if (wordCache.has(cacheKey)) return wordCache.get(cacheKey);
\* const result = isEnglishWord(word, options)
WordCacheHas(c, word) ==
    /\ callers.discipline = "interleaved"
    /\ callers.at[c].pc = "idle"
    /\ \E cacheKey \in {wordCacheKey(word, CallerOptions)} :
          IF cacheHas(wordCache, cacheKey)
          THEN Moves(c, wordCache,
                     [pc |-> "done", key |-> cacheKey,
                      value |-> cacheGet(wordCache, cacheKey)])
          ELSE Moves(c, wordCache,
                     [pc |-> "size", key |-> cacheKey,
                      value |-> isEnglishWordOnce(word, CallerOptions)])

\* cacheSet: if (cache.size >= limit)
CacheSetSize(c) ==
    /\ callers.at[c].pc = "size"
    /\ Moves(c, wordCache,
             [callers.at[c] EXCEPT
                 !.pc = IF cacheSize(wordCache) >= WORD_CACHE_LIMIT
                        THEN "delete" ELSE "set"])

\* cacheSet: cache.delete(cache.keys().next().value)
CacheSetDelete(c) ==
    /\ callers.at[c].pc = "delete"
    /\ Moves(c, cacheDeleteFirst(wordCache), [callers.at[c] EXCEPT !.pc = "set"])

\* cacheSet: cache.set(key, value); return result
CacheSetSet(c) ==
    /\ callers.at[c].pc = "set"
    /\ Moves(c, mapSet(wordCache, callers.at[c].key, callers.at[c].value),
             [callers.at[c] EXCEPT !.pc = "done"])

NextCallers ==
    \E c \in CallerIds :
        \/ \E word \in CallerWords : AtomicIsEnglishWordCached(c, word)
        \/ \E word \in CallerWords : WordCacheHas(c, word)
        \/ CacheSetSize(c)
        \/ CacheSetDelete(c)
        \/ CacheSetSet(c)

SpecCallers == InitCallers /\ [][NextCallers]_vars

---------------------------------------------------------------------------
(* Properties of the process (Spec) *)

Classifying == {"detectNonEnglishText", "isEnglish"}

\* what detectNonEnglishText answered in the last call, itself or under
\* isEnglish's negation
NonEnglish == IF call.op = "isEnglish" THEN ~ret.value ELSE ret.value

\* the keys the lookups `ls` missed in cache c, in order
Misses(ls, c) ==
    LET missed == SelectSeq(ls, LAMBDA l : l.cache = c /\ ~l.hit)
    IN  [k \in 1..Len(missed) |-> missed[k].key]

\* some lookup of `ls` was in cache c, and every one of them hit
AllHits(ls, c) ==
    /\ \E k \in 1..Len(ls) : ls[k].cache = c
    /\ \A k \in 1..Len(ls) : ls[k].cache = c => ls[k].hit

\* the keys of a cache in insertion order (a run of untracked keys as its
\* length)
Shape(cache) == [k \in 1..Len(cache) |-> <<cache[k].key, cache[k].run>>]

\* the cache without its n earliest-inserted entries
RECURSIVE dropOldest(_, _)
dropOldest(cache, n) ==
    IF n = 0 \/ Len(cache) = 0 THEN cache
    ELSE IF cache[1].run = 0 THEN dropOldest(Tail(cache), n - 1)
    ELSE IF cache[1].run > n
    THEN <<[cache[1] EXCEPT !.run = @ - n]>> \o Tail(cache)
    ELSE dropOldest(Tail(cache), n - cache[1].run)

\* `post` is `pre` after the inserts of `keys` under first-in first-out
\* eviction: every insert made at the capacity removed the one entry that
\* was then the earliest, every other insert removed nothing
FifoInserts(pre, post, limit, keys) ==
    LET total == cacheSize(pre) + Len(keys)
        over  == IF total > limit THEN total - limit ELSE 0
    IN  Shape(post) = Shape(dropOldest(pre, over)) \o [k \in 1..Len(keys) |-> <<keys[k], 0>>]

\* a key no call of the model inserts
FreshKey == "fresh key"

\* C2: for every text and options, isEnglish returns the negation of what
\* detectNonEnglishText returns from the same state of the two caches (and
\* leaves the caches as detectNonEnglishText leaves them).
C2_IsEnglishNegatesDetect ==
    [][(call'.op = "isEnglish" /\ calls' = calls + 1) =>
          \E d \in {detectNonEnglishText(call'.inputText, call'.options,
                                         francCache, wordCache)} :
              /\ ret'.status = d.status
              /\ ret'.value = ~d.value
              /\ francCache' = d.francCache
              /\ wordCache' = d.wordCache]_vars

C2_Witness ==
    /\ call.op = "isEnglish" /\ ret.status = "returns" /\ ret.value = FALSE
    /\ observed.franc # <<>>
    /\ cacheSize(wordCache) = WORD_CACHE_LIMIT

\* C3: the caches are pure memoization.  Whatever the state of the caches a
\* call started from (empty, partly filled, at capacity, just cleared), it
\* returned what the same call returns from empty caches; and every entry
\* of either cache holds what the uncached computation gives for its key.
C3_CachesArePureMemoization ==
    /\ call.op \in Classifying =>
           \E cold \in {detectNonEnglishText(call.inputText, call.options, <<>>, <<>>)} :
               ret.status = cold.status /\ NonEnglish = cold.value
    /\ \A k \in 1..Len(francCache) :
           francCache[k].run = 0 =>
               \E r \in {francLanguageAnalysis(francCache[k].key, <<>>)} :
                   francCache[k].value = <<r.language, r.confidence>>
    /\ \A k \in 1..Len(wordCache) :
           wordCache[k].run = 0 =>
               \E a \in DOMAIN isEnglishWordTable, b \in BOOLEAN :
                   \E o \in {[allowNumbers |-> a[2], allowAbbreviations |-> b]} :
                       /\ wordCache[k].key = wordCacheKey(a[1], o)
                       /\ wordCache[k].value = isEnglishWordOnce(a[1], o)

\* a call answered from the caches alone, both at capacity
C3_Witness ==
    /\ call.op \in Classifying
    /\ AllHits(observed.lookups, "word") /\ AllHits(observed.lookups, "franc")
    /\ cacheSize(francCache) = FRANC_CACHE_LIMIT
    /\ cacheSize(wordCache) = WORD_CACHE_LIMIT

\* C4: after any sequence of calls the trigram cache holds at most 1000
\* entries and the word cache at most 5000.
C4_CachesWithinCapacity ==
    /\ cacheSize(francCache) <= FRANC_CACHE_LIMIT
    /\ cacheSize(wordCache) <= WORD_CACHE_LIMIT

\* a call that inserted into both caches, both at capacity afterwards
C4_Witness ==
    /\ Len(Misses(observed.lookups, "franc")) > 0
    /\ Len(Misses(observed.lookups, "word")) > 0
    /\ cacheSize(francCache) = FRANC_CACHE_LIMIT
    /\ cacheSize(wordCache) = WORD_CACHE_LIMIT

\* C5: an insert of an absent key into a cache at capacity removes exactly
\* one entry, the earliest-inserted one still present, and keeps every later
\* one; an insert below the capacity removes nothing.  (A call inserts the
\* keys it missed, in order.)
C5_EvictionIsFirstInFirstOut ==
    [][call'.op \in Classifying =>
          /\ FifoInserts(francCache, francCache', FRANC_CACHE_LIMIT,
                         Misses(observed'.lookups, "franc"))
          /\ FifoInserts(wordCache, wordCache', WORD_CACHE_LIMIT,
                         Misses(observed'.lookups, "word"))]_vars

\* the word cache at capacity after a call that inserted "the": "le", the
\* earliest key, is gone
C5_Witness ==
    /\ Len(Misses(observed.lookups, "word")) > 0
    /\ cacheSize(wordCache) = WORD_CACHE_LIMIT
    /\ cacheHas(wordCache, "the_true_true")
    /\ ~cacheHas(wordCache, "le_true_true")
    /\ wordCache[1].run > 0

\* C6: a cache hit does not change the eviction order.  A call that only
\* hit a cache leaves it as it was, and the next insert at capacity still
\* evicts the entry that was the earliest before the hit.
C6_HitKeepsEvictionOrder ==
    [][call'.op \in Classifying =>
          /\ AllHits(observed'.lookups, "word") =>
                /\ wordCache' = wordCache
                /\ cacheSize(wordCache) >= WORD_CACHE_LIMIT =>
                      FifoInserts(wordCache,
                                  cacheSet(wordCache', WORD_CACHE_LIMIT, FreshKey, TRUE),
                                  WORD_CACHE_LIMIT, <<FreshKey>>)
          /\ AllHits(observed'.lookups, "franc") =>
                /\ francCache' = francCache
                /\ cacheSize(francCache) >= FRANC_CACHE_LIMIT =>
                      FifoInserts(francCache,
                                  cacheSet(francCache', FRANC_CACHE_LIMIT, FreshKey,
                                           <<"und", 100>>),
                                  FRANC_CACHE_LIMIT, <<FreshKey>>)]_vars

\* a call that hit the earliest entry of the word cache, which is at
\* capacity and holds later entries
C6_Witness ==
    /\ AllHits(observed.lookups, "word")
    /\ cacheSize(wordCache) = WORD_CACHE_LIMIT
    /\ Len(wordCache) >= 2
    /\ wordCache[1].run = 0
    /\ wordCache[1].key = observed.lookups[1].key

\* C21: clearLanguageDetectorCaches can be called in any state (before any
\* detection, between detections, repeatedly): it never raises, it leaves
\* both caches empty, and a detection call made next behaves as on a fresh
\* start (same result, same lookups, same caches left).
C21_ClearResetsTheCaches ==
    [][/\ call'.op = "clearLanguageDetectorCaches" =>
              /\ ret'.status = "returns"
              /\ francCache' = <<>>
              /\ wordCache' = <<>>
       /\ (call.op = "clearLanguageDetectorCaches" /\ call'.op \in Classifying
              /\ calls' = calls + 1) =>
              \E fresh \in {detectNonEnglishText(call'.inputText, call'.options,
                                                 <<>>, <<>>)} :
                  /\ ret'.status = fresh.status
                  /\ NonEnglish' = fresh.value
                  /\ observed' = fresh.observed
                  /\ francCache' = fresh.francCache
                  /\ wordCache' = fresh.wordCache]_vars

\* the second of two calls was a clear, and both caches are empty
C21_Witness ==
    /\ call.op = "clearLanguageDetectorCaches"
    /\ calls = 2
    /\ ret.status = "returns"
    /\ francCache = <<>> /\ wordCache = <<>>

---------------------------------------------------------------------------
(* Properties of one call (SpecDecide) *)

\* an input that is no string, or a string of nothing but whitespace
IsBlank(v) ==
    v.type # "string"
        \/ \A k \in 1..Len(v.value) : SubSeq(v.value, k, k) \in WhitespaceSet

\* the call has returned with a decision on a text that is not blank
Decided ==
    call.op \in Classifying /\ ret.status = "returns" /\ ~IsBlank(call.inputText)

\* the englishThreshold of the call's options, in hundredths
Configured == Opt(call.options, "englishThreshold", 80)

\* the options with englishThreshold set to t
WithThreshold(options, t) ==
    [k \in DOMAIN options \cup {"englishThreshold"} |->
        IF k = "englishThreshold" THEN t ELSE options[k]]

\* englishWordCount / totalRelevantWords of the call (1.0 when no token was
\* counted) is at least t hundredths
ObservedRatioAtLeast(t) ==
    IF observed.totalRelevantWords = 0
    THEN 100 >= t
    ELSE observed.englishWordCount * 100 >= t * observed.totalRelevantWords

\* the threshold documented for a text of observed.words tokens
DocumentedThreshold == IF observed.words <= 4 THEN 60 ELSE Configured

EmptyStringCall ==
    /\ call.op = "isEnglish"
    /\ call.inputText = Str("")
    /\ call.options = [englishThreshold |-> 50]
    /\ ret.status # "pending"

C7_ThresholdIsMonotone ==
    (call.op \in Classifying /\ ret.status = "returns" /\ ~NonEnglish) =>
        \A t1 \in Thresholds :
            t1 <= Configured =>
                \E d \in {detectNonEnglishText(call.inputText,
                                               WithThreshold(call.options, t1),
                                               <<>>, <<>>)} :
                    d.status = "returns" /\ ~d.value

\* a text of five tokens or more, English under 0.95 by the trigram rule
C7_Witness ==
    /\ Decided /\ ~NonEnglish
    /\ Configured = 95
    /\ observed.words >= 5
    /\ observed.franc # <<>>

\* C8: a text of four whitespace-separated tokens or fewer (counted after
\* preprocessing, before the per-token filter) is decided against 0.6
\* whatever englishThreshold is; a text of five or more against the
\* configured value, 0.8 by default.  At or above that threshold the text
\* is English and the trigram analyzer is not consulted; below it, it is.
C8_ShortTextThreshold ==
    Decided =>
        /\ ObservedRatioAtLeast(DocumentedThreshold) <=> (observed.franc = <<>>)
        /\ ObservedRatioAtLeast(DocumentedThreshold) => ~NonEnglish

\* four tokens, three of them counted, ratio 2/3: English under 0.95
C8_Witness ==
    /\ Decided /\ ~NonEnglish
    /\ observed.words = 4
    /\ observed.totalRelevantWords = 3
    /\ Configured = 95
    /\ ~ObservedRatioAtLeast(Configured)
    /\ observed.franc = <<>>

\* C9: englishThreshold is the minimum ratio of English words a text needs:
\* isEnglish returns true for a text whose ratio is at least the configured
\* englishThreshold (a two-word text with one English word under 0.5).
C9_ThresholdIsMinimumRatio ==
    (Decided /\ call.op = "isEnglish" /\ ObservedRatioAtLeast(Configured)) =>
        ret.value = TRUE

\* C10: below the threshold, the text is English exactly when the trigram
\* analyzer's result is "eng" with confidence at least 0.9 and the ratio is
\* at least 0.7, whatever englishThreshold is; otherwise it is non-English.
C10_TrigramRescue ==
    (Decided /\ ~ObservedRatioAtLeast(DocumentedThreshold)) =>
        /\ observed.franc # <<>>
        /\ NonEnglish = ~(/\ observed.franc[1] = "eng"
                          /\ observed.franc[2] >= 90
                          /\ ObservedRatioAtLeast(70))

\* English by the trigram rule with the confidence exactly 0.9
C10_Witness ==
    /\ Decided /\ ~NonEnglish
    /\ ~ObservedRatioAtLeast(DocumentedThreshold)
    /\ observed.franc = <<"eng", 90>>

---------------------------------------------------------------------------
(* Properties of the trigram fallback (SpecDecide) *)

\* the customPatterns and excludeWords of the call
CallPatterns == Opt(call.options, "customPatterns", <<>>)
CallExcludes == Opt(call.options, "excludeWords", <<>>)

\* the tokens the call scores: its preprocessed text, split at the spaces
CallWords == wordsOnce(call.inputText.value, CallPatterns, CallExcludes)

RECURSIVE JoinWords(_)
JoinWords(words) ==
    IF Len(words) = 0 THEN ""
    ELSE IF Len(words) = 1 THEN words[1]
    ELSE words[1] \o " " \o JoinWords(Tail(words))

\* the keys of the call's lookups in the trigram cache
FrancKeys ==
    {observed.lookups[k].key :
        k \in {h \in 1..Len(observed.lookups) : observed.lookups[h].cache = "franc"}}

\* C11: the text handed to the trigram analyzer, which is the key of the
\* trigram cache, is the preprocessor's output for the call, not the
\* caller's raw input.
C11_TrigramTextIsPreprocessed ==
    Decided => \A key \in FrancKeys : key = JoinWords(CallWords)

\* the pair the documented policy picks from a ranking: the first "eng" with
\* confidence >= 0.9 among the top five, else the top-ranked pair
PolicyChoice(ranking) ==
    LET english == {k \in 1..Len(ranking) :
                       k <= 5 /\ ranking[k][1] = "eng" /\ ranking[k][2] >= 90}
    IN  IF english = {} THEN ranking[1]
        ELSE ranking[CHOOSE k \in english : \A h \in english : k <= h]

\* C12: from every ranking of the n-gram identifier the analyzer returns
\* the first candidate among the top five that is English with confidence
\* >= 0.9, even if it is not ranked first, and the top-ranked candidate if
\* there is none; the returned pair is the one that is cached.
C12_TrigramPolicy ==
    (call.op \in Classifying /\ ret.status = "returns") =>
        \A key \in FrancKeys :
            /\ observed.franc = PolicyChoice(francAll(key))
            /\ cacheHas(francCache, key)
            /\ cacheGet(francCache, key) = observed.franc

\* English at rank two with confidence 0.9 was returned, not the top-ranked
C12_Witness ==
    /\ Decided
    /\ \E key \in FrancKeys : francAll(key)[1][1] = "deu"
    /\ observed.franc = <<"eng", 90>>
    /\ cacheSize(francCache) = 1

\* C13: fail closed.  If the n-gram identifier returns an empty ranking
\* for a text whose ratio is below the threshold, detectNonEnglishText
\* returns true (non-English) and raises no error, and the trigram cache
\* gets no entry.
C13_EmptyRankingFailsClosed ==
    (call.op \in Classifying /\ ret.status # "pending" /\ FrancKeys # {}
        /\ \A key \in FrancKeys : francAll(key) = <<>>) =>
        /\ ret.status = "returns"
        /\ NonEnglish
        /\ francCache = <<>>

\* C27: whenever the effective threshold is at most 0.7 (in particular
\* for every input of 4 or fewer tokens, where it is 0.6), the result of
\* detectNonEnglishText does not depend on what the trigram analyzer
\* returns: it is true exactly when the ratio is below the effective
\* threshold, although the analyzer is still called and its result cached.
C27_LowThresholdIgnoresTrigrams ==
    (Decided /\ DocumentedThreshold <= 70) =>
        /\ NonEnglish = ~ObservedRatioAtLeast(DocumentedThreshold)
        /\ NonEnglish =>
               /\ observed.franc # <<>>
               /\ FrancKeys # {}
               /\ \A key \in FrancKeys :
                      /\ cacheHas(francCache, key)
                      /\ cacheGet(francCache, key) = observed.franc

\* a text of four tokens or fewer under englishThreshold 1.0, non-English
\* although the analyzer answered English with confidence 1.0
C27_Witness ==
    /\ Decided /\ NonEnglish
    /\ observed.words <= 4
    /\ Configured = 100
    /\ observed.franc = <<"eng", 100>>
    /\ cacheSize(francCache) = 1

---------------------------------------------------------------------------
(* Properties of the per-token scoring (SpecDecide) *)

\* the options of the call that reach the word loop
CallMinWordLength == Opt(call.options, "minWordLength", 2)
CallWordOptions ==
    [allowNumbers       |-> Opt(call.options, "allowNumbers", TRUE),
     allowAbbreviations |-> Opt(call.options, "allowAbbreviations", TRUE)]

\* the positions of the call's tokens that pass the length filter
Relevant ==
    {k \in 1..Len(CallWords) :
        Len(tokenTable[CallWords[k]].cleanWord) >= CallMinWordLength}

\* the token has an apostrophe, and its part before the first one is in the
\* dictionary
IsContraction(token) ==
    \E i \in 1..Len(token) :
        /\ SubSeq(token, i, i) = "'"
        /\ \A h \in 1..(i - 1) : SubSeq(token, h, h) # "'"
        /\ toLowerCase(SubSeq(token, 1, i - 1)) \in englishDictionary

\* the cleaned token is two or more uppercase ASCII letters, then digits
IsAbbreviation(cleanWord) ==
    \E n \in 2..Len(cleanWord) :
        /\ \A h \in 1..n : SubSeq(cleanWord, h, h) \in UpperSet
        /\ \A h \in (n + 1)..Len(cleanWord) : SubSeq(cleanWord, h, h) \in DigitSet

\* the token at position k goes past the abbreviation shortcut
Classified(k) ==
    ~(CallWordOptions.allowAbbreviations
        /\ IsAbbreviation(tokenTable[CallWords[k]].cleanWord))

\* the word classifier accepts the lower-cased token at position k
Accepted(k) == isEnglishWordOnce(tokenTable[CallWords[k]].lower, CallWordOptions)

\* C14: a token that contains an apostrophe and whose part before the first
\* apostrophe is in the dictionary is counted as an English word, even when
\* the token without the apostrophe is no dictionary word: the English
\* count of a call is the number of its relevant tokens that are such
\* contractions, abbreviations, or accepted by the classifier.
C14_ContractionsCountAsEnglish ==
    Decided =>
        observed.englishWordCount =
            Cardinality({k \in Relevant :
                            \/ IsContraction(CallWords[k])
                            \/ ~Classified(k)
                            \/ Accepted(k)})

\* the caller's text split at the spaces
rawWordsTable == Table([t \in DecideTexts |-> split(t)])
RawWords == rawWordsTable[call.inputText.value]

\* the words of the model in lower case
lowerTable ==
    Table([w \in UNION {Range(rawWordsTable[t]) : t \in DecideTexts}
                 \cup UNION {Range(e) : e \in ExcludeWordLists}
                 \cup Tokens |-> toLowerCase(w)])

\* the standalone all-digit tokens of the caller's text that pass the
\* length filter, by position
NumberTokens ==
    LET raw == RawWords
    IN  {k \in 1..Len(raw) :
            /\ Len(raw[k]) > 0
            /\ Len(raw[k]) >= CallMinWordLength
            /\ \A h \in 1..Len(raw[k]) : SubSeq(raw[k], h, h) \in DigitSet}

\* C15: a standalone all-digit token of the input is counted as a relevant
\* word under either setting of allowNumbers, and as an English word when
\* allowNumbers is true.
C15_NumbersCountAsWords ==
    Decided =>
        /\ observed.totalRelevantWords >= Cardinality(NumberTokens)
        /\ CallWordOptions.allowNumbers =>
               observed.englishWordCount >= Cardinality(NumberTokens)

\* the keys of the call's lookups in the word cache, in order
WordKeys ==
    LET looked == SelectSeq(observed.lookups, LAMBDA l : l.cache = "word")
    IN  [j \in 1..Len(looked) |-> looked[j].key]

\* the positions of the relevant tokens that go to the classifier, in order
ClassifiedPositions ==
    SelectSeq([k \in 1..Len(CallWords) |-> k],
              LAMBDA k : k \in Relevant /\ Classified(k))

\* C16: with allowAbbreviations true, every token whose original-case form
\* (after punctuation stripping) is two or more uppercase ASCII letters
\* counts as English without the word classifier or the word cache being
\* consulted; with allowAbbreviations false the same token is lower-cased
\* and decided by the word classifier like any other word.
C16_AbbreviationShortcut ==
    Decided =>
        /\ observed.totalRelevantWords = Cardinality(Relevant)
        /\ observed.englishWordCount =
               Cardinality({k \in Relevant : ~Classified(k) \/ Accepted(k)})
        /\ WordKeys =
               [j \in 1..Len(ClassifiedPositions) |->
                   wordCacheKey(tokenTable[CallWords[ClassifiedPositions[j]]].lower,
                                CallWordOptions)]

\* two abbreviations counted as English, the one other token looked up
C16_Witness ==
    /\ Decided
    /\ CallWordOptions.allowAbbreviations
    /\ Cardinality({k \in Relevant : ~Classified(k)}) = 2
    /\ observed.englishWordCount = 2
    /\ Len(WordKeys) = 1

\* the lower-case letters
LowerLetterSet == LowerSet \cup CharsOf(NON_ASCII_LOWER)

\* the lower-cased tokens of the model that consist of lower-case letters
\* only (the empty one among them)
LetterWords ==
    {w \in {tokenTable[t].lower : t \in Tokens} :
        \A h \in 1..Len(w) : SubSeq(w, h, h) \in LowerLetterSet}

\* the keys of LetterWords in the word cache, for the options of the call
letterKeyTable ==
    Table([a \in BOOLEAN \X BOOLEAN |->
              {wordCacheKey(w, [allowNumbers |-> a[1], allowAbbreviations |-> a[2]]) :
                  w \in LetterWords}])
LetterKeys ==
    letterKeyTable[<<CallWordOptions.allowNumbers, CallWordOptions.allowAbbreviations>>]

\* the options with allowNumbers set to n
WithAllowNumbers(options, n) ==
    [k \in DOMAIN options \cup {"allowNumbers"} |->
        IF k = "allowNumbers" THEN n ELSE options[k]]

CleanedTextIsEmpty == CallWords = <<"">>

\* every token of the call is shorter than minWordLength once its
\* punctuation is stripped
AllTokensTooShort ==
    \A k \in 1..Len(CallWords) :
        Len(tokenTable[CallWords[k]].cleanWord) < CallMinWordLength

\* C22: if the cleaned text yields no relevant word (it is empty after
\* preprocessing, or every token is shorter than minWordLength after
\* punctuation stripping), the ratio is 1.0 and detectNonEnglishText returns
\* false for every englishThreshold in [0,1], without consulting the
\* trigram analyzer.
C22_NoRelevantWordIsEnglish ==
    (Decided /\ (CleanedTextIsEmpty \/ AllTokensTooShort)) =>
        /\ observed.totalRelevantWords = 0
        /\ ~NonEnglish
        /\ observed.franc = <<>>

---------------------------------------------------------------------------
(* Properties of the preprocessor (SpecDecide) *)

\* a string of letters only
IsWord(str) ==
    Len(str) > 0 /\ \A h \in 1..Len(str) : SubSeq(str, h, h) \in LetterSet

\* the exclude-words of the call and the geo-terms (singular and plural),
\* in lower case
ExcludedForms == {lowerTable[CallExcludes[k]] : k \in 1..Len(CallExcludes)}
GeoForms ==
    UNION {{toLowerCase(wordsToRemove[k]), toLowerCase(wordsToRemove[k]) \o "s"} :
              k \in 1..Len(wordsToRemove)}

\* C17: exclude-word removal is whole-word and case-insensitive.  No token
\* of the scored text is an exclude-word in any letter case, and a longer
\* word that contains an exclude-word (theater, for the) is scored as it
\* was written.
C17_ExcludeWordsAreWholeWords ==
    Decided =>
        /\ \A k \in 1..Len(CallWords) : lowerTable[CallWords[k]] \notin ExcludedForms
        /\ \A k \in 1..Len(RawWords) :
               (/\ IsWord(RawWords[k])
                /\ lowerTable[RawWords[k]] \notin ExcludedForms \cup GeoForms)
                   => RawWords[k] \in Range(CallWords)

\* C18: after preprocessing no whole-word occurrence of a geo-term, in
\* singular or plural form and in any letter case, remains in the text that
\* is scored: every occurrence is removed, not only the first of each term.
C18_NoGeoTermRemains ==
    Decided => \A k \in 1..Len(CallWords) : lowerTable[CallWords[k]] \notin GeoForms

\* matchesDocumentPattern on each token of the caller's texts
documentTokenTable ==
    Table([w \in UNION {Range(rawWordsTable[t]) : t \in DecideTexts} |->
              matchesDocumentPattern(Str(w))])

\* the positions of the caller's tokens that are document IDs
DocumentTokens == {k \in 1..Len(RawWords) : documentTokenTable[RawWords[k]]}

\* a is a non-empty part of b
IsFragment(a, b) ==
    /\ Len(a) > 0
    /\ \E i \in 1..(Len(b) - Len(a) + 1) : SubSeq(b, i, i + Len(a) - 1) = a

\* C19: the removal patterns are a superset of matchesDocumentPattern's
\* shapes: every token for which matchesDocumentPattern returns true is
\* removed in its entirety, and no fragment of it is tokenized and scored.
C19_DocumentIdsAreRemovedWhole ==
    Decided =>
        \A k \in DocumentTokens, j \in 1..Len(CallWords) :
            ~IsFragment(CallWords[j], RawWords[k])

---------------------------------------------------------------------------
(* Properties of the word classifier (SpecWord) *)

\* the suffixes, the vocabulary and the function words of the screening
ForeignSuffixes ==
    {"keit", "schaft", "ción", "zione", "mente", "baar", "lijk", "eur", "agem",
     "ção"}
ForeignWords ==
    NON_ENGLISH_FUNCTION_WORDS_REGEX
        \cup UNION {NON_ENGLISH_WORD_PATTERNS[k] :
                       k \in 1..Len(NON_ENGLISH_WORD_PATTERNS)}

EndsWith(word, suffix) ==
    /\ Len(word) >= Len(suffix)
    /\ SubSeq(word, Len(word) - Len(suffix) + 1, Len(word)) = suffix

HasChar(word, S) == \E h \in 1..Len(word) : SubSeq(word, h, h) \in S
OnlyChars(word, S) == \A h \in 1..Len(word) : SubSeq(word, h, h) \in S

\* the part of the word before its first apostrophe
Stem(word) ==
    LET first == CHOOSE h \in 1..Len(word) :
                     /\ SubSeq(word, h, h) = "'"
                     /\ ~HasChar(SubSeq(word, 1, h - 1), {"'"})
    IN  SubSeq(word, 1, first - 1)

\* the verdict the documented decision order gives a lower-case word
Verdict(word, allowNumbers) ==
    CASE ~OnlyChars(word, LowerSet \cup UpperSet \cup DigitSet \cup {"'", "-"})
             -> FALSE
      [] OTHER ->
    CASE allowNumbers /\ Len(word) > 0 /\ OnlyChars(word, DigitSet) -> TRUE
      [] OTHER ->
    CASE Len(word) >= 2
           /\ \/ \E suffix \in ForeignSuffixes : EndsWith(word, suffix)
              \/ word \in ForeignWords -> FALSE
      [] OTHER ->
    CASE word \in englishDictionary -> TRUE
      [] OTHER -> HasChar(word, {"'"}) /\ Stem(word) \in englishDictionary

verdictTable ==
    Table([a \in ClassifierWords \X BOOLEAN |-> Verdict(a[1], a[2])])

\* the word classifier has answered
Classify == call.op = "isEnglishWordCached" /\ ret.status = "returns"

\* C25: the word classifier decides in this order, for every lower-case
\* word: reject if it has a character outside ASCII letters, digits,
\* apostrophe and hyphen; else accept if allowNumbers and it is all digits;
\* else reject if it trips a non-English indicator (suffix, vocabulary or
\* function-word list, for words of length >= 2); else accept if it is in
\* the dictionary; else accept if it has an apostrophe and its stem is in
\* the dictionary; else reject.
C25_ClassifierDecisionOrder ==
    Classify =>
        ret.value = verdictTable[<<call.inputText.value, call.options.allowNumbers>>]

\* a dictionary word on the function-word list was rejected, and so was a
\* dictionary word with a screened suffix, while an all-digit word is accepted
C25_Witness ==
    /\ Classify
    /\ call.inputText.value = "die"
    /\ "die" \in englishDictionary /\ "die" \in ForeignWords
    /\ ret.value = FALSE
    /\ ~verdictTable[<<"come", TRUE>>] /\ ~verdictTable[<<"amateur", TRUE>>]
    /\ verdictTable[<<"123", TRUE>>] /\ ~verdictTable[<<"123", FALSE>>]
    /\ verdictTable[<<"die's", TRUE>>]

---------------------------------------------------------------------------
(* Properties of concurrent callers (SpecCallers) *)

\* the callers that have returned
Done == {c \in CallerIds : callers.at[c].pc = "done"}

\* C26: cache insertion needs mutual exclusion.  When each classification
\* call (and so each size-check, evict, insert sequence of cacheSet) runs
\* atomically, no interleaving of callers pushes the cache above its
\* capacity or loses an insert: a call that missed leaves its verdict in
\* the cache under its key, as the newest entry, at the cost of the oldest
\* entry alone when the cache was at capacity.  (Without a lock, callers
\* that interleave between the size check and the insert reach a state
\* with more entries than the capacity: C26_Witness.)
C26_AtomicCallsKeepTheCapacity ==
    [][callers.discipline = "atomic" =>
          /\ cacheSize(wordCache') <= WORD_CACHE_LIMIT
          /\ \A c \in CallerIds :
                 (callers.at[c].pc = "idle" /\ callers'.at[c].pc = "done") =>
                     /\ FifoInserts(wordCache, wordCache', WORD_CACHE_LIMIT,
                                    IF cacheHas(wordCache, callers'.at[c].key)
                                    THEN <<>> ELSE <<callers'.at[c].key>>)
                     /\ cacheGet(wordCache', callers'.at[c].key)
                            = callers'.at[c].value]_vars

\* two interleaved callers have both inserted after both saw the cache one
\* entry below its capacity: it holds one entry more than the capacity
C26_Witness ==
    /\ callers.discipline = "interleaved"
    /\ Done = CallerIds
    /\ cacheSize(wordCache) = WORD_CACHE_LIMIT + 1

---------------------------------------------------------------------------
(* Properties of uppercase texts (SpecDecide) *)

\* every token the call scores is, once its punctuation is stripped, two
\* or more uppercase ASCII letters
AllTokensUppercase ==
    \A k \in 1..Len(CallWords) :
        LET cleanWord == tokenTable[CallWords[k]].cleanWord
        IN  Len(cleanWord) >= 2 /\ OnlyChars(cleanWord, UpperSet)

\* the relevant tokens whose lower-case form is on the non-English
\* function-word or vocabulary lists
ForeignPositions ==
    {k \in Relevant : tokenTable[CallWords[k]].lower \in ForeignWords}

\* the texts of the model in lower case
lowerTextTable == Table([t \in DecideTexts |-> toLowerCase(t)])

\* C29: the abbreviation shortcut bypasses the non-English screening.  With
\* allowAbbreviations true, a text whose every token is two or more
\* uppercase ASCII letters is classified English for every englishThreshold
\* in [0,1], even when the lower-case forms of its tokens are on the
\* non-English function-word or vocabulary lists (DER, LES, UND), while the
\* same text in lower case has those tokens counted as non-English.
C29_UppercaseBypassesScreening ==
    (Decided /\ CallWordOptions.allowAbbreviations /\ AllTokensUppercase) =>
        /\ ~NonEnglish
        /\ observed.englishWordCount = observed.totalRelevantWords
        /\ observed.totalRelevantWords = Cardinality(Relevant)
        /\ observed.lookups = <<>>
        /\ \E d \in {detectNonEnglishText(Str(lowerTextTable[call.inputText.value]),
                                           call.options, <<>>, <<>>)} :
               /\ d.observed.totalRelevantWords = observed.totalRelevantWords
               /\ d.observed.totalRelevantWords - d.observed.englishWordCount
                      >= Cardinality(ForeignPositions)

\* five uppercase tokens, all on the non-English lists, English under
\* englishThreshold 1.0 without a lookup
C29_Witness ==
    /\ Decided /\ ~NonEnglish
    /\ CallWordOptions.allowAbbreviations /\ AllTokensUppercase
    /\ Configured = 100
    /\ observed.words = 5
    /\ Cardinality(ForeignPositions) = 5
    /\ observed.englishWordCount = 5
    /\ observed.lookups = <<>>

---------------------------------------------------------------------------
(* Properties of the caches across one call (SpecFrame) *)

\* the keys a cache holds one by one
Keys(cache) == {cache[k].key : k \in {h \in 1..Len(cache) : cache[h].run = 0}}

\* the word-cache keys of the call's tokens that go to the classifier, and
\* of those that are skipped for length or accepted as abbreviations
ClassifiedKeys ==
    {wordCacheKey(tokenTable[CallWords[k]].lower, CallWordOptions) :
        k \in {h \in Relevant : Classified(h)}}
PassedOverKeys ==
    {wordCacheKey(tokenTable[CallWords[k]].lower, CallWordOptions) :
        k \in {h \in 1..Len(CallWords) : h \notin Relevant \/ ~Classified(h)}}

\* C30: the caches across one detectNonEnglishText call.  A call that
\* returns at the empty-input guard changes neither cache; a call whose
\* ratio meets the effective threshold leaves the trigram cache unchanged;
\* tokens skipped for length and tokens accepted by the abbreviation
\* shortcut add nothing to the word cache; and a call adds at most one
\* trigram-cache entry and at most one word-cache entry per distinct
\* classified word.
C30_CacheFrameConditions ==
    [][(ret.status = "pending" /\ ret'.status = "returns") =>
          /\ IsBlank(call'.inputText) =>
                 (francCache' = francCache /\ wordCache' = wordCache)
          /\ (Decided' /\ ObservedRatioAtLeast(DocumentedThreshold)') =>
                 francCache' = francCache
          /\ Decided' =>
                 /\ Keys(wordCache') \ Keys(wordCache) \subseteq ClassifiedKeys'
                 /\ (PassedOverKeys' \ ClassifiedKeys')
                        \cap (Keys(wordCache') \ Keys(wordCache)) = {}
                 /\ Cardinality(Keys(francCache') \ Keys(francCache)) <= 1
                 /\ cacheSize(francCache') <= cacheSize(francCache) + 1
                 /\ cacheSize(wordCache')
                        <= cacheSize(wordCache) + Cardinality(ClassifiedKeys')
                 /\ Len(Misses(observed'.lookups, "franc")) <= 1
                 /\ Len(Misses(observed'.lookups, "word"))
                        <= Cardinality(ClassifiedKeys')]_vars

\* a call on a warm cache with two abbreviations and three other words, of
\* which two were new to the word cache, and a new trigram entry
C30_Witness ==
    /\ Decided
    /\ Cardinality({k \in Relevant : ~Classified(k)}) = 2
    /\ Cardinality(ClassifiedKeys) = 3
    /\ Len(Misses(observed.lookups, "word")) = 2
    /\ Len(Misses(observed.lookups, "franc")) = 1
    /\ cacheSize(wordCache) = 4
    /\ cacheSize(francCache) = 2

---------------------------------------------------------------------------
(* Properties of the order of preprocessing (SpecPreprocess) *)

\* the stages in the documented order
Stages ==
    <<"documentIds", "geoTerms", "customPatterns", "excludeWords", "nonLetters",
      "whitespace">>

\* one stage applied to a text
Stage(name, text, customPatterns, excludeWords) ==
    CASE name = "documentIds"    -> removeDocumentPatterns(text)
      [] name = "geoTerms"       -> removeGeographicalTerms(text)
      [] name = "customPatterns" -> removeCustom(text, customPatterns, 1)
      [] name = "excludeWords"   -> removeExcluded(text, excludeWords, 1)
      [] name = "nonLetters"     -> Replace(text, NON_LETTER_REGEX, " ", TRUE)
      [] name = "whitespace"     -> normalizeWhitespace(text)

\* the stages of `order` from the k-th on, applied one after the other
RECURSIVE Pipeline(_, _, _, _, _)
Pipeline(order, k, text, customPatterns, excludeWords) ==
    IF k > Len(order) THEN text
    ELSE Bind(Stage(order[k], text, customPatterns, excludeWords),
              LAMBDA next : Pipeline(order, k + 1, next, customPatterns, excludeWords))

\* the documented order with the k-th stage and the next one exchanged
Swapped(k) ==
    [j \in 1..Len(Stages) |->
        IF j = k THEN Stages[k + 1] ELSE IF j = k + 1 THEN Stages[k] ELSE Stages[j]]

\* the tokens each order of stages gives for each call: index 0 is the
\* documented order, index k the order with stages k and k + 1 exchanged
orderTable ==
    Table([a \in OrderCalls |->
              [k \in 0..(Len(Stages) - 1) |->
                  split(Pipeline(IF k = 0 THEN Stages ELSE Swapped(k), 1,
                                 a[1], a[2], a[3]))]])

\* the tokens the documented order gives for the call
InOrder == orderTable[<<call.inputText.value, CallPatterns, CallExcludes>>][0]

\* the positions of lst in reverse
Reversed(lst) == [j \in 1..Len(lst) |-> lst[Len(lst) + 1 - j]]

\* C23: preprocessing runs its stages in one fixed order on every call:
\* document-ID removal, geo-term removal, each customPatterns entry in the
\* given order, each excludeWords entry in the given order, non-letter
\* stripping, whitespace collapse and trim.  The tokens a call scores are
\* those this order gives: customPatterns and excludeWords see the text
\* after the document-ID and geo-term stages, with its digits and symbols.
C23_PreprocessingOrder ==
    Decided =>
        /\ CallWords = InOrder
        /\ observed.words = Len(InOrder)
        /\ WordKeys =
               [j \in 1..Len(ClassifiedPositions) |->
                   wordCacheKey(tokenTable[InOrder[ClassifiedPositions[j]]].lower,
                                CallWordOptions)]

\* every exchange of two neighbouring stages, and the reversal of either
\* list, changes the tokens of some call; this call has a ticket number
\* that only a pattern applied before the exclude-words and before the
\* digits are stripped removes whole
C23_Witness ==
    /\ Decided
    /\ \A k \in 1..(Len(Stages) - 1) :
           \E a \in OrderCalls : orderTable[a][k] # orderTable[a][0]
    /\ \E a \in OrderCalls :
           /\ <<a[1], Reversed(a[2]), a[3]>> \in OrderCalls
           /\ orderTable[<<a[1], Reversed(a[2]), a[3]>>][0] # orderTable[a][0]
    /\ \E a \in OrderCalls :
           /\ <<a[1], a[2], Reversed(a[3])>> \in OrderCalls
           /\ orderTable[<<a[1], a[2], Reversed(a[3])>>][0] # orderTable[a][0]
    /\ call.inputText.value = "TICKET-99 the cat"
    /\ CallPatterns = <<"TICKET">> /\ CallExcludes = <<"TICKET">>
    /\ InOrder = <<"the", "cat">>
    /\ observed.words = 2

---------------------------------------------------------------------------
(* Properties of matchesDocumentPattern (SpecDocument) *)

\* somewhere in the text, between two word boundaries, stand 2 to 6
\* uppercase ASCII letters followed by 1 to 4 digits (a hyphen-joined
\* segment after them begins at such a boundary)
HasDocumentIdShape(str) ==
    \E i \in 1..Len(str), n \in 2..6, m \in 1..4 :
        /\ i + n + m - 1 <= Len(str)
        /\ i = 1 \/ SubSeq(str, i - 1, i - 1) \notin WordCharSet
        /\ \A h \in i..(i + n - 1) : SubSeq(str, h, h) \in UpperSet
        /\ \A h \in (i + n)..(i + n + m - 1) : SubSeq(str, h, h) \in DigitSet
        /\ \/ i + n + m - 1 = Len(str)
           \/ SubSeq(str, i + n + m, i + n + m) \notin WordCharSet

documentShapeTable == Table([t \in DocumentTexts |-> HasDocumentIdShape(t)])

\* C20: matchesDocumentPattern is a stateless predicate.  It returns false
\* for null, undefined, non-string and empty input, and true exactly when
\* the string holds one of the document-ID shapes; the answer depends on
\* the argument only, so it is the same on every repeated call; and it
\* leaves both caches as they were.
C20_MatchesDocumentPatternIsStateless ==
    [][call'.op = "matchesDocumentPattern" =>
          /\ ret'.status = "returns"
          /\ ret'.value = (/\ call'.inputText.type = "string"
                           /\ documentShapeTable[call'.inputText.value])
          /\ francCache' = francCache
          /\ wordCache' = wordCache]_vars

\* a second call that returned true, the word cache at capacity
C20_Witness ==
    /\ call.op = "matchesDocumentPattern"
    /\ ret.status = "returns" /\ ret.value = TRUE
    /\ calls = 2
    /\ cacheSize(wordCache) = WORD_CACHE_LIMIT

=============================================================================
